---- MODULE Spec2Model ----
(***************************************************************************)
(* Verification model of the Omniverse connect samples.                    *)
(*                                                                         *)
(* The repository holds several independent programs.  Each program has    *)
(* its own group of variables and its own specification; a specification   *)
(* leaves the variables of the other programs at their initial values.     *)
(*                                                                         *)
(*   SpecLive / FairLive  liveSession.cpp: main thread (liveEdit,          *)
(*                        endAndMergeSession, teardown) and the channel    *)
(*                        thread (AppUpdate::run)                          *)
(*   SpecChannel          omnicli.cpp: join / send / leave                 *)
(*   SpecTok              omnicli.cpp: tokenize                            *)
(*   SpecAcls             omnicli.cpp: setacls                             *)
(*   SpecBaseUrl          omnicli.cpp: cd / push / pop                     *)
(*   SpecUsd              omnicli.cpp: load / save / close / lock / unlock *)
(*   SpecSensor /         omniSensorThread.cpp: main and the worker thread *)
(*   FairSensor                                                            *)
(*   SpecHello            helloWorld.cpp: liveEdit                         *)
(*   SpecLiveEdits        the liveEdit loop of liveSession or of helloWorld*)
(*   SpecArgs             liveSession.cpp: main, from argv to the session  *)
(*   SpecZones            omniSimpleSensor.cpp: createZoneGeometry         *)
(***************************************************************************)
EXTENDS Integers, Sequences, FiniteSets, TLC

VARIABLES
    \* ---- liveSession.cpp ----
    mainPc,            \* position of the main thread
    chPc,              \* position of the channel thread (AppUpdate::run)
    gStageMerged,      \* static bool gStageMerged
    mStopped,          \* AppUpdate::mStopped
    mChannels,         \* AppUpdate::mChannels
    wait,              \* liveEdit: bool wait
    nextCommand,       \* liveEdit: char nextCommand ("none" outside its scope)
    angle,             \* liveEdit: double angle (always a multiple of 15)
    mergeOption,       \* endAndMergeSession: std::string mergeOption
    mergeResult,       \* value returned by endAndMergeSession ("none" before)
    newLayerCalls,     \* mergeToNewLayer calls of the current endAndMergeSession
    rootCalls,         \* mergeToRoot calls of the current endAndMergeSession
    sessionState,      \* the live session: "joined", "merged", "left"
    liveSessionHeld,   \* main's shared_ptr liveSession is non-null
    stageHeld,         \* main's UsdStageRefPtr stage is non-null
    inbox,             \* messages of other clients waiting in the channel
    sent,              \* last message this client sent to the channel
    mergeProcessed,    \* the channel thread has processed a Merge* message
    iter,              \* events of the current liveEdit loop iteration
    teardown,          \* teardown steps main has performed, in order
    \* ---- omnicli.cpp: join / send / leave ----
    g_channel,         \* OmniClientRequestId g_channel (0: no channel)
    requestUrl,        \* requestUrl[id]: URL of the channel request with that id
    activeRequests,    \* ids of the channel requests joined and not stopped
    joinRetCode,       \* joinChannel: static int retCode
    sendCalls,         \* number of omniClientSendMessage calls so far
    sendTarget,        \* channel of the last omniClientSendMessage call
    chanLast,          \* the last channel command: what it saw and returned
    chanPrev,          \* name of the command before the last one
    \* ---- omnicli.cpp: tokenize ----
    line,              \* char const* line
    p,                 \* index of *p in line (1-based)
    inWhiteSpace,      \* bool inWhiteSpace
    inQuote,           \* bool inQuote
    backslashCount,    \* uint32_t backslashCount
    token,             \* std::string token
    tokens,            \* std::vector<std::string> tokens
    tokPc,             \* "loop", "after" (past the for loop) or "done"
    \* ---- omnicli.cpp: setacls ----
    serverAcls,        \* the ACL entries the server holds for the URL
    aclPc,             \* "prompt" (waiting for a command) or "ran"
    aclLast,           \* the last setacls command: what it saw, sent and returned
    \* ---- omnicli.cpp: cd / push / pop ----
    baseUrls,          \* the client library's stack of base URLs (top is last)
    urlLast,           \* the last cd/push/pop command and the stack before it
    urlPrev,           \* the command before the last one and the stack before it
    \* ---- omnicli.cpp: load / save / close / lock / unlock ----
    g_stage,           \* UsdStageRefPtr g_stage: <<>> (null) or the URL it was opened from
    lockedUrls,        \* URLs the server holds locked
    savedUrls,         \* URLs the loaded stage was saved or exported to
    closedSinceLoad,   \* a close has succeeded and no load has succeeded since
    usdLast,           \* the last load/save/close/lock/unlock command
    usdPrev,           \* name and return code of the command before the last one
    \* ---- omniSensorThread.cpp ----
    snPc,              \* position of main
    wkPc,              \* position of the worker thread (DataStageWriterWorker::doWork)
    stopped,           \* DataStageWriterWorker::stopped (std::atomic<bool>)
    timeoutArg,        \* argv[3]
    timeout,           \* main: int timeout
    elapsedTime,       \* main: int elapsedTime
    now,               \* seconds std::time(0) has advanced since startTime was taken
    step,              \* DataStageWriterWorker::step
    gStage,            \* static UsdStageRefPtr gStage is non-null
    clientUp,          \* the client library is initialized and not shut down
    nChecks,           \* number of 5-second pauses main has taken
    stopAt,            \* the pauses taken and the time measured when main left its loop
    passedOver,        \* main went on waiting after measuring a time >= timeout
    afterStop,         \* what the worker has done since stopped was set
    lateCalls,         \* worker calls made with the stage released or the client shut down
    \* ---- helloWorld.cpp: liveEdit ----
    hwPc,              \* position of liveEdit ("off": helloWorld is not running)
    hwCommand,         \* liveEdit: char nextCommand ("none" outside its scope)
    hwAngle,           \* liveEdit: double angle (always a multiple of 15)
    hwWait,            \* liveEdit: bool wait
    hwFrame,           \* case 'a': int i
    joinRequestId,     \* liveEdit: joinRequestId is not kInvalidRequestId
    animCounter,       \* case 's': static int animCounter
    hwSends,           \* omniClientSendMessage calls of the current iteration
    hwIter,            \* events of the current liveEdit loop iteration
    \* ---- liveSession.cpp: main, up to the live session ----
    argv,              \* argv[1..argc-1] (argv[0], the program name, is left out)
    argX,              \* main: int x of the second loop, as an index into argv
    argPc,             \* position of main
    verbose,           \* main: bool verbose
    doLiveEdit,        \* main: bool doLiveEdit
    existingStageUri,  \* main: std::string existingStageUri ("" when empty)
    argRet,            \* how main ended: "none", "0", "-1" or "exit(1)"
    omniStarted,       \* startOmniverse returned true
    stageOpenCalls,    \* number of UsdStage::Open calls
    sessionJoined,     \* findOrCreateSession has been called
    \* ---- omniSimpleSensor.cpp: createZoneGeometry ----
    numberOfThreads,   \* omniSimpleSensor main: int numberOfThreads
    zoneX,             \* omniSimpleSensor main: int x of the loop over the zones
    boxes,             \* the boxes defined on the stage: path and (x, y, z) offset, in order
    attachLast         \* the last attachToZoneGeometry call of omniSensorThread

liveVars == <<mainPc, chPc, gStageMerged, mStopped, mChannels, wait, nextCommand,
              angle, mergeOption, mergeResult, newLayerCalls, rootCalls,
              sessionState, liveSessionHeld, stageHeld, inbox, sent,
              mergeProcessed, iter, teardown>>

chanVars == <<g_channel, requestUrl, activeRequests, joinRetCode, sendCalls,
              sendTarget, chanLast, chanPrev>>

tokVars == <<line, p, inWhiteSpace, inQuote, backslashCount, token, tokens, tokPc>>

aclVars == <<serverAcls, aclPc, aclLast>>

urlVars == <<baseUrls, urlLast, urlPrev>>

usdVars == <<g_stage, lockedUrls, savedUrls, closedSinceLoad, usdLast, usdPrev>>

sensorVars == <<snPc, wkPc, stopped, timeoutArg, timeout, elapsedTime, now, step,
                gStage, clientUp, nChecks, stopAt, passedOver, afterStop,
                lateCalls>>

helloVars == <<hwPc, hwCommand, hwAngle, hwWait, hwFrame, joinRequestId,
               animCounter, hwSends, hwIter>>

argsVars == <<argv, argX, argPc, verbose, doLiveEdit, existingStageUri, argRet,
              omniStarted, stageOpenCalls, sessionJoined>>

zoneVars == <<numberOfThreads, zoneX, boxes, attachLast>>

vars == <<liveVars, chanVars, tokVars, aclVars, urlVars, usdVars, sensorVars,
          helloVars, argsVars, zoneVars>>

\* The state of a program before it runs; a specification keeps the programs
\* it does not model in this state.
LiveIdle ==
    /\ mainPc = "start"
    /\ chPc = "unstarted"
    /\ gStageMerged = FALSE
    /\ mStopped = FALSE
    /\ mChannels = <<>>
    /\ wait = FALSE
    /\ nextCommand = "none"
    /\ angle = 0
    /\ mergeOption = "none"
    /\ mergeResult = "none"
    /\ newLayerCalls = 0
    /\ rootCalls = 0
    /\ sessionState = "joined"
    /\ liveSessionHeld = TRUE
    /\ stageHeld = TRUE
    /\ inbox = <<>>
    /\ sent = "none"
    /\ mergeProcessed = FALSE
    /\ iter = <<>>
    /\ teardown = <<>>

NoCommand == [cmd |-> "none"]

ChanIdle ==
    /\ g_channel = 0
    /\ requestUrl = <<>>
    /\ activeRequests = {}
    /\ joinRetCode = "EXIT_FAILURE"
    /\ sendCalls = 0
    /\ sendTarget = 0
    /\ chanLast = NoCommand
    /\ chanPrev = "none"

TokIdle ==
    /\ line = <<>>
    /\ p = 1
    /\ inWhiteSpace = TRUE
    /\ inQuote = FALSE
    /\ backslashCount = 0
    /\ token = <<>>
    /\ tokens = <<>>
    /\ tokPc = "loop"

AclIdle ==
    /\ serverAcls = <<>>
    /\ aclPc = "prompt"
    /\ aclLast = NoCommand

UrlIdle ==
    /\ baseUrls = <<>>
    /\ urlLast = NoCommand
    /\ urlPrev = NoCommand

UsdIdle ==
    /\ g_stage = <<>>
    /\ lockedUrls = {}
    /\ savedUrls = {}
    /\ closedSinceLoad = FALSE
    /\ usdLast = [cmd |-> "none", ret |-> "none"]
    /\ usdPrev = [cmd |-> "none", ret |-> "none"]

SensorIdle ==
    /\ snPc = "start"
    /\ wkPc = "unstarted"
    /\ stopped = FALSE
    /\ timeoutArg = <<>>
    /\ timeout = -1
    /\ elapsedTime = 0
    /\ now = 0
    /\ step = 0
    /\ gStage = FALSE
    /\ clientUp = FALSE
    /\ nChecks = 0
    /\ stopAt = [set |-> FALSE]
    /\ passedOver = FALSE
    /\ afterStop = [entries |-> 0, edits |-> 0, processes |-> 0]
    /\ lateCalls = 0

HelloIdle ==
    /\ hwPc = "off"
    /\ hwCommand = "none"
    /\ hwAngle = 0
    /\ hwWait = FALSE
    /\ hwFrame = 0
    /\ joinRequestId = FALSE
    /\ animCounter = 0
    /\ hwSends = 0
    /\ hwIter = <<>>

ArgsIdle ==
    /\ argv = <<>>
    /\ argX = 1
    /\ argPc = "off"
    /\ verbose = FALSE
    /\ doLiveEdit = FALSE
    /\ existingStageUri = ""
    /\ argRet = "none"
    /\ omniStarted = FALSE
    /\ stageOpenCalls = 0
    /\ sessionJoined = FALSE

ZoneIdle ==
    /\ numberOfThreads = 0
    /\ zoneX = 0
    /\ boxes = <<>>
    /\ attachLast = NoCommand

LiveOnly == UNCHANGED <<chanVars, tokVars, aclVars, urlVars, usdVars,
                        sensorVars, helloVars, argsVars, zoneVars>>
ChanOnly == UNCHANGED <<liveVars, tokVars, aclVars, urlVars, usdVars,
                        sensorVars, helloVars, argsVars, zoneVars>>
TokOnly == UNCHANGED <<liveVars, chanVars, aclVars, urlVars, usdVars,
                       sensorVars, helloVars, argsVars, zoneVars>>
AclOnly == UNCHANGED <<liveVars, chanVars, tokVars, urlVars, usdVars,
                       sensorVars, helloVars, argsVars, zoneVars>>
UrlOnly == UNCHANGED <<liveVars, chanVars, tokVars, aclVars, usdVars,
                       sensorVars, helloVars, argsVars, zoneVars>>
UsdOnly == UNCHANGED <<liveVars, chanVars, tokVars, aclVars, urlVars,
                       sensorVars, helloVars, argsVars, zoneVars>>
SensorOnly == UNCHANGED <<liveVars, chanVars, tokVars, aclVars, urlVars,
                          usdVars, helloVars, argsVars, zoneVars>>
HelloOnly == UNCHANGED <<liveVars, chanVars, tokVars, aclVars, urlVars,
                         usdVars, sensorVars, argsVars, zoneVars>>
ArgsOnly == UNCHANGED <<liveVars, chanVars, tokVars, aclVars, urlVars,
                        usdVars, sensorVars, helloVars, zoneVars>>
ZoneOnly == UNCHANGED <<liveVars, chanVars, tokVars, aclVars, urlVars,
                        usdVars, sensorVars, helloVars, argsVars>>

\* ------------------------------------------------------------------------
\* Bounds
\* ------------------------------------------------------------------------
MaxInbox == 2
MaxRequests == 3
MaxSends == 2
MaxLine == 5
MaxAcls == 2
MaxAccessLen == 2
MaxArgLen == 2
MaxUrlLen == 3
MaxDepth == 2
MaxClock == 12
MaxAnims == 2
MaxArgc == 3
MaxZones == 28

\* ========================================================================
\* liveSession.cpp
\* ========================================================================

\* The single channel of the session (liveSession->getChannel()).
Channel == "channel"

\* LiveSessionChannel::MessageType values other clients can send.
MessageTypes == {"Hello", "MergeStarted", "MergeFinished"}

\* Characters getchar() can deliver; "esc" is 27, "other" any other character.
Commands == {"t", "r", "o", "u", "g", "c", "m", "q", "esc", "other"}

\* Words std::cin >> mergeOption can deliver.
MergeInputs == {"n", "r", "c", "N", "nr", "x"}

\* gStageMerged and mStopped are plain bools written by one thread and read by
\* the other without synchronisation: a read may still see the old value.
RacyRead(v) == IF v THEN {TRUE, FALSE} ELSE {FALSE}

\* msg.type == eMergeStarted || msg.type == eMergeFinished
IsMergeMessage(type) == type = "MergeStarted" \/ type = "MergeFinished"

\* angle += 15; if (angle >= 360) angle = 0;
NextAngle(a) == IF a + 15 >= 360 THEN 0 ELSE a + 15

\* while (mergeOption != "n" && mergeOption != "r" && mergeOption != "c")
MergePromptAgain(opt) == opt # "n" /\ opt # "r" /\ opt # "c"

\* (as JoinReturns, without waiting for the thread)
JoinReturns_NoWait == TRUE

\* std::thread::join: returns once AppUpdate::run has returned.
JoinReturns == chPc = "done"

InitLive ==
    /\ LiveIdle /\ ChanIdle /\ TokIdle /\ AclIdle /\ UrlIdle /\ UsdIdle /\ ZoneIdle
    /\ SensorIdle /\ HelloIdle /\ ArgsIdle

\* main: AppUpdate appUpdate(16); mChannels.push_back(...); std::thread(...)
StartThread ==
    /\ mainPc = "start"
    /\ mChannels' = <<Channel>>
    /\ chPc' = "while"
    /\ mainPc' = "liveEdit"
    /\ LiveOnly
    /\ UNCHANGED <<gStageMerged, mStopped, wait, nextCommand, angle, mergeOption,
                   mergeResult, newLayerCalls, rootCalls, sessionState,
                   liveSessionHeld, stageHeld, inbox, sent, mergeProcessed, iter,
                   teardown>>

\* liveEdit entry: angle = 0; omniClientLiveProcess(); wait = true
LiveEditEnter ==
    /\ mainPc = "liveEdit"
    /\ angle' = 0
    /\ wait' = TRUE
    /\ iter' = <<"process">>
    /\ mainPc' = "while"
    /\ LiveOnly
    /\ UNCHANGED <<chPc, gStageMerged, mStopped, mChannels, nextCommand,
                   mergeOption, mergeResult, newLayerCalls, rootCalls,
                   sessionState, liveSessionHeld, stageHeld, inbox, sent,
                   mergeProcessed, teardown>>

\* while (wait)
LiveEditWhile ==
    /\ mainPc = "while"
    /\ mainPc' = IF wait THEN "getchar" ELSE "stop"
    /\ nextCommand' = "none"
    /\ LiveOnly
    /\ UNCHANGED <<chPc, gStageMerged, mStopped, mChannels, wait, angle,
                   mergeOption, mergeResult, newLayerCalls, rootCalls,
                   sessionState, liveSessionHeld, stageHeld, inbox, sent,
                   mergeProcessed, iter, teardown>>

\* char nextCommand = getchar();   (blocks until the user types a character)
GetChar ==
    /\ mainPc = "getchar"
    /\ \E c \in Commands : nextCommand' = c
    /\ iter' = <<"read">>
    /\ mainPc' = "check"
    /\ LiveOnly
    /\ UNCHANGED <<chPc, gStageMerged, mStopped, mChannels, wait, angle,
                   mergeOption, mergeResult, newLayerCalls, rootCalls,
                   sessionState, liveSessionHeld, stageHeld, inbox, sent,
                   mergeProcessed, teardown>>

\* if (gStageMerged) return;  omniClientLiveProcess();
CheckMerged ==
    /\ mainPc = "check"
    /\ \E seen \in RacyRead(gStageMerged) :
          IF seen
          THEN /\ mainPc' = "stop"
               /\ nextCommand' = "none"
               /\ iter' = iter
          ELSE /\ mainPc' = "switch"
               /\ nextCommand' = nextCommand
               /\ iter' = Append(iter, "process")
    /\ LiveOnly
    /\ UNCHANGED <<chPc, gStageMerged, mStopped, mChannels, wait, angle,
                   mergeOption, mergeResult, newLayerCalls, rootCalls,
                   sessionState, liveSessionHeld, stageHeld, inbox, sent,
                   mergeProcessed, teardown>>

\* case 't': move the mesh if it is (or can be made) valid and active
CmdTransform ==
    /\ mainPc = "switch" /\ nextCommand = "t"
    /\ \E primValid \in BOOLEAN :
          IF primValid
          THEN /\ angle' = NextAngle(angle)
               /\ iter' = iter \o <<"edit", "process">>
          ELSE /\ angle' = angle
               /\ iter' = iter
    /\ mainPc' = "while"
    /\ LiveOnly
    /\ UNCHANGED <<chPc, gStageMerged, mStopped, mChannels, wait, nextCommand,
                   mergeOption, mergeResult, newLayerCalls, rootCalls,
                   sessionState, liveSessionHeld, stageHeld, inbox, sent,
                   mergeProcessed, teardown>>

\* case 'r': std::cin >> primToRename; prim = stage->GetPrimAtPath(...)
CmdRenamePath ==
    /\ mainPc = "switch" /\ nextCommand = "r"
    /\ \E primFound \in BOOLEAN :
          mainPc' = IF primFound THEN "r_name" ELSE "while"
    /\ LiveOnly
    /\ UNCHANGED <<chPc, gStageMerged, mStopped, mChannels, wait, nextCommand,
                   angle, mergeOption, mergeResult, newLayerCalls, rootCalls,
                   sessionState, liveSessionHeld, stageHeld, inbox, sent,
                   mergeProcessed, iter, teardown>>

\* case 'r': std::cin >> newName; if (renamePrim(...)) omniClientLiveProcess();
CmdRenameName ==
    /\ mainPc = "r_name"
    /\ \E renamed \in BOOLEAN :
          iter' = IF renamed THEN iter \o <<"edit", "process">> ELSE iter
    /\ mainPc' = "while"
    /\ LiveOnly
    /\ UNCHANGED <<chPc, gStageMerged, mStopped, mChannels, wait, nextCommand,
                   angle, mergeOption, mergeResult, newLayerCalls, rootCalls,
                   sessionState, liveSessionHeld, stageHeld, inbox, sent,
                   mergeProcessed, teardown>>

\* case 'o', 'u', 'c' and default: only log
CmdLog ==
    /\ mainPc = "switch" /\ nextCommand \in {"o", "u", "c", "other"}
    /\ mainPc' = "while"
    /\ LiveOnly
    /\ UNCHANGED <<chPc, gStageMerged, mStopped, mChannels, wait, nextCommand,
                   angle, mergeOption, mergeResult, newLayerCalls, rootCalls,
                   sessionState, liveSessionHeld, stageHeld, inbox, sent,
                   mergeProcessed, iter, teardown>>

\* case 'g': sendMessage(eGetUsers)
CmdGetUsers ==
    /\ mainPc = "switch" /\ nextCommand = "g"
    /\ sent' = "GetUsers"
    /\ mainPc' = "while"
    /\ LiveOnly
    /\ UNCHANGED <<chPc, gStageMerged, mStopped, mChannels, wait, nextCommand,
                   angle, mergeOption, mergeResult, newLayerCalls, rootCalls,
                   sessionState, liveSessionHeld, stageHeld, inbox,
                   mergeProcessed, iter, teardown>>

\* case 27, 'q': wait = false
CmdQuit ==
    /\ mainPc = "switch" /\ nextCommand \in {"q", "esc"}
    /\ wait' = FALSE
    /\ mainPc' = "while"
    /\ LiveOnly
    /\ UNCHANGED <<chPc, gStageMerged, mStopped, mChannels, nextCommand, angle,
                   mergeOption, mergeResult, newLayerCalls, rootCalls,
                   sessionState, liveSessionHeld, stageHeld, inbox, sent,
                   mergeProcessed, iter, teardown>>

\* case 'm' calls endAndMergeSession, which starts with
\* sendMessage(eMergeStarted); std::string mergeOption("_");
EndAndMergeEnter ==
    /\ mainPc = "switch" /\ nextCommand = "m"
    /\ sent' = "MergeStarted"
    /\ mergeOption' = "_"
    /\ mergeResult' = "none"
    /\ newLayerCalls' = 0
    /\ rootCalls' = 0
    /\ mainPc' = "m_loop"
    /\ LiveOnly
    /\ UNCHANGED <<chPc, gStageMerged, mStopped, mChannels, wait, nextCommand,
                   angle, sessionState, liveSessionHeld, stageHeld, inbox,
                   mergeProcessed, iter, teardown>>

\* the test of the prompt loop
MergeLoopTest ==
    /\ mainPc = "m_loop"
    /\ mainPc' = IF MergePromptAgain(mergeOption) THEN "m_read" ELSE "m_branch"
    /\ LiveOnly
    /\ UNCHANGED <<chPc, gStageMerged, mStopped, mChannels, wait, nextCommand,
                   angle, mergeOption, mergeResult, newLayerCalls, rootCalls,
                   sessionState, liveSessionHeld, stageHeld, inbox, sent,
                   mergeProcessed, iter, teardown>>

\* std::cin >> mergeOption;   (blocks until the user types a word)
MergeRead ==
    /\ mainPc = "m_read"
    /\ \E w \in MergeInputs : mergeOption' = w
    /\ mainPc' = "m_loop"
    /\ LiveOnly
    /\ UNCHANGED <<chPc, gStageMerged, mStopped, mChannels, wait, nextCommand,
                   angle, mergeResult, newLayerCalls, rootCalls, sessionState,
                   liveSessionHeld, stageHeld, inbox, sent, mergeProcessed, iter,
                   teardown>>

\* (as MergeAction, with the cancel branch merging to the root layer)
MergeAction_NoCancel(opt) ==
    IF opt = "n" THEN [call |-> "mergeToNewLayer", ret |-> "true"]
    ELSE [call |-> "mergeToRoot", ret |-> "true"]

\* What endAndMergeSession does with the option once the loop is left:
\* which merge it calls and what it returns.
MergeAction(opt) ==
    IF opt = "n" THEN [call |-> "mergeToNewLayer", ret |-> "true"]
    ELSE IF opt = "r" THEN [call |-> "mergeToRoot", ret |-> "true"]
    ELSE [call |-> "none", ret |-> "false"]

MergeBranch ==
    /\ mainPc = "m_branch"
    /\ LET act == MergeAction(mergeOption) IN
          /\ newLayerCalls' = newLayerCalls + (IF act.call = "mergeToNewLayer" THEN 1 ELSE 0)
          /\ rootCalls' = rootCalls + (IF act.call = "mergeToRoot" THEN 1 ELSE 0)
          /\ sessionState' = IF act.call = "none" THEN sessionState ELSE "merged"
          /\ mergeResult' = act.ret
    /\ mainPc' = "m_return"
    /\ LiveOnly
    /\ UNCHANGED <<chPc, gStageMerged, mStopped, mChannels, wait, nextCommand,
                   angle, mergeOption, liveSessionHeld, stageHeld, inbox, sent,
                   mergeProcessed, iter, teardown>>

\* liveEdit, case 'm': if (endAndMergeSession(liveSession)) wait = false;
WaitAfterMerge(result, w) == IF result = "true" THEN FALSE ELSE w

MergeReturn ==
    /\ mainPc = "m_return"
    /\ wait' = WaitAfterMerge(mergeResult, wait)
    /\ mainPc' = "while"
    /\ LiveOnly
    /\ UNCHANGED <<chPc, gStageMerged, mStopped, mChannels, nextCommand, angle,
                   mergeOption, mergeResult, newLayerCalls, rootCalls,
                   sessionState, liveSessionHeld, stageHeld, inbox, sent,
                   mergeProcessed, iter, teardown>>

\* main: appUpdate.mStopped = true;
SetStopped ==
    /\ mainPc = "stop"
    /\ mStopped' = TRUE
    /\ teardown' = Append(teardown, "mStopped")
    /\ mainPc' = "join"
    /\ LiveOnly
    /\ UNCHANGED <<chPc, gStageMerged, mChannels, wait, nextCommand, angle,
                   mergeOption, mergeResult, newLayerCalls, rootCalls,
                   sessionState, liveSessionHeld, stageHeld, inbox, sent,
                   mergeProcessed, iter>>

\* main: channelUpdateThread.join();
JoinThread ==
    /\ mainPc = "join"
    /\ JoinReturns
    /\ teardown' = Append(teardown, "join")
    /\ mainPc' = "clear"
    /\ LiveOnly
    /\ UNCHANGED <<chPc, gStageMerged, mStopped, mChannels, wait, nextCommand,
                   angle, mergeOption, mergeResult, newLayerCalls, rootCalls,
                   sessionState, liveSessionHeld, stageHeld, inbox, sent,
                   mergeProcessed, iter>>

\* main: appUpdate.mChannels.clear();
ClearChannels ==
    /\ mainPc = "clear"
    /\ mChannels' = <<>>
    /\ teardown' = Append(teardown, "clear")
    /\ mainPc' = "reset_session"
    /\ LiveOnly
    /\ UNCHANGED <<chPc, gStageMerged, mStopped, wait, nextCommand, angle,
                   mergeOption, mergeResult, newLayerCalls, rootCalls,
                   sessionState, liveSessionHeld, stageHeld, inbox, sent,
                   mergeProcessed, iter>>

\* main: liveSession.reset();  "This will leave and close the session if we
\* didn't merge"
ResetSession ==
    /\ mainPc = "reset_session"
    /\ liveSessionHeld' = FALSE
    /\ sessionState' = IF sessionState = "joined" THEN "left" ELSE sessionState
    /\ teardown' = Append(teardown, "session")
    /\ mainPc' = "reset_stage"
    /\ LiveOnly
    /\ UNCHANGED <<chPc, gStageMerged, mStopped, mChannels, wait, nextCommand,
                   angle, mergeOption, mergeResult, newLayerCalls, rootCalls,
                   stageHeld, inbox, sent, mergeProcessed, iter>>

\* main: stage.Reset();
ResetStage ==
    /\ mainPc = "reset_stage"
    /\ stageHeld' = FALSE
    /\ teardown' = Append(teardown, "stage")
    /\ mainPc' = "shutdown"
    /\ LiveOnly
    /\ UNCHANGED <<chPc, gStageMerged, mStopped, mChannels, wait, nextCommand,
                   angle, mergeOption, mergeResult, newLayerCalls, rootCalls,
                   sessionState, liveSessionHeld, inbox, sent, mergeProcessed,
                   iter>>

\* main: shutdownOmniverse(); return 0;
ShutdownLive ==
    /\ mainPc = "shutdown"
    /\ mainPc' = "done"
    /\ LiveOnly
    /\ UNCHANGED <<chPc, gStageMerged, mStopped, mChannels, wait, nextCommand,
                   angle, mergeOption, mergeResult, newLayerCalls, rootCalls,
                   sessionState, liveSessionHeld, stageHeld, inbox, sent,
                   mergeProcessed, iter, teardown>>

\* AppUpdate::run: while (!mStopped)
ChWhile ==
    /\ chPc = "while"
    /\ \E seen \in RacyRead(mStopped) :
          chPc' = IF seen THEN "done" ELSE "sleep"
    /\ LiveOnly
    /\ UNCHANGED <<mainPc, gStageMerged, mStopped, mChannels, wait, nextCommand,
                   angle, mergeOption, mergeResult, newLayerCalls, rootCalls,
                   sessionState, liveSessionHeld, stageHeld, inbox, sent,
                   mergeProcessed, iter, teardown>>

\* AppUpdate::run: std::this_thread::sleep_for(...)
ChSleep ==
    /\ chPc = "sleep"
    /\ chPc' = "for"
    /\ LiveOnly
    /\ UNCHANGED <<mainPc, gStageMerged, mStopped, mChannels, wait, nextCommand,
                   angle, mergeOption, mergeResult, newLayerCalls, rootCalls,
                   sessionState, liveSessionHeld, stageHeld, inbox, sent,
                   mergeProcessed, iter, teardown>>

\* AppUpdate::run: for (auto& channel : mChannels) { processMessages(); ... }
ChProcess ==
    /\ chPc = "for"
    /\ LET merge == \E i \in 1..Len(inbox) : IsMergeMessage(inbox[i]) IN
          IF mChannels = <<>>
          THEN UNCHANGED <<inbox, gStageMerged, mergeProcessed>>
          ELSE /\ inbox' = <<>>
               /\ gStageMerged' = (gStageMerged \/ merge)
               /\ mergeProcessed' = (mergeProcessed \/ merge)
    /\ chPc' = "while"
    /\ LiveOnly
    /\ UNCHANGED <<mainPc, mStopped, mChannels, wait, nextCommand, angle,
                   mergeOption, mergeResult, newLayerCalls, rootCalls,
                   sessionState, liveSessionHeld, stageHeld, sent, iter,
                   teardown>>

\* Another client of the session broadcasts a message on the channel.
OtherClientSends ==
    /\ liveSessionHeld
    /\ chPc # "unstarted"
    /\ Len(inbox) < MaxInbox
    /\ \E type \in MessageTypes : inbox' = Append(inbox, type)
    /\ LiveOnly
    /\ UNCHANGED <<mainPc, chPc, gStageMerged, mStopped, mChannels, wait,
                   nextCommand, angle, mergeOption, mergeResult, newLayerCalls,
                   rootCalls, sessionState, liveSessionHeld, stageHeld, sent,
                   mergeProcessed, iter, teardown>>

\* Steps of the main thread that wait for the user to type.
MainInput == GetChar \/ MergeRead \/ CmdRenamePath \/ CmdRenameName

\* Steps of the main thread that need no input.
MainStep ==
    \/ StartThread \/ LiveEditEnter \/ LiveEditWhile \/ CheckMerged
    \/ CmdTransform \/ CmdLog \/ CmdGetUsers \/ CmdQuit
    \/ EndAndMergeEnter \/ MergeLoopTest \/ MergeBranch \/ MergeReturn
    \/ SetStopped \/ JoinThread \/ ClearChannels \/ ResetSession \/ ResetStage
    \/ ShutdownLive

ChannelThread == ChWhile \/ ChSleep \/ ChProcess

NextLive == MainInput \/ MainStep \/ ChannelThread \/ OtherClientSends

SpecLive == InitLive /\ [][NextLive]_vars

\* Both threads are scheduled, and a write to gStageMerged or mStopped does not
\* stay invisible to the other thread for ever.  Nothing is assumed of the
\* user's typing or of other clients.
FairLive ==
    /\ SpecLive
    /\ WF_vars(MainStep)
    /\ WF_vars(ChannelThread)
    /\ SF_vars(CheckMerged /\ mainPc' = "stop")
    /\ SF_vars(ChWhile /\ chPc' = "done")

\* Positions of main after liveEdit has returned.
AfterLiveEdit == {"stop", "join", "clear", "reset_session", "reset_stage",
                  "shutdown", "done"}

\* C1: whenever the channel thread has processed a MergeStarted or
\* MergeFinished message of another client, gStageMerged is true and liveEdit
\* eventually returns, so that main goes on to shut down.
C1_MergeLeadsToExit ==
    /\ [](mergeProcessed => gStageMerged)
    /\ (mergeProcessed ~> (mainPc \in AfterLiveEdit))

\* C2: endAndMergeSession prompts until the word read is exactly "n", "r" or
\* "c"; when it returns, "n" has called mergeToNewLayer once (and mergeToRoot
\* not at all) and returned true, "r" has called mergeToRoot once (and
\* mergeToNewLayer not at all) and returned true, "c" has called neither and
\* returned false; after the 'm' command liveEdit's wait is false exactly when
\* the result was true, and the loop test leaves the loop exactly when wait is
\* false.
C2_EndAndMerge ==
    /\ (mainPc = "m_read" => mergeOption \notin {"n", "r", "c"})
    /\ (mainPc \in {"m_branch", "m_return"} => mergeOption \in {"n", "r", "c"})
    /\ (mainPc = "m_branch" => newLayerCalls = 0 /\ rootCalls = 0)
    /\ (mainPc = "m_return" \/ (mainPc = "while" /\ nextCommand = "m") =>
           /\ mergeOption = "n" =>
                 newLayerCalls = 1 /\ rootCalls = 0 /\ mergeResult = "true"
           /\ mergeOption = "r" =>
                 newLayerCalls = 0 /\ rootCalls = 1 /\ mergeResult = "true"
           /\ mergeOption = "c" =>
                 newLayerCalls = 0 /\ rootCalls = 0 /\ mergeResult = "false")
    /\ (mainPc = "while" /\ nextCommand = "m" =>
           /\ wait = (mergeResult = "false")
           /\ ENABLED (LiveEditWhile /\ mainPc' = "stop") <=> mergeResult = "true")

C2_Witness ==
    /\ mainPc = "while" /\ nextCommand = "m"
    /\ mergeOption = "n" /\ newLayerCalls = 1 /\ mergeResult = "true"
    /\ wait = FALSE

\* The order of main's teardown.
TeardownOrder == <<"mStopped", "join", "clear", "session", "stage">>

\* C3: after liveEdit has returned main tears down in the order mStopped,
\* join, mChannels.clear(), liveSession.reset(), stage.Reset(); the reset
\* leaves the session exactly when no merge was done; the channel thread is
\* never about to call processMessages unless the channel is still in
\* mChannels and the session and stage are still held, and it has returned
\* before mChannels is cleared or the session released.
C3_TeardownOrder ==
    /\ Len(teardown) <= Len(TeardownOrder)
    /\ teardown = SubSeq(TeardownOrder, 1, Len(teardown))
    /\ (teardown # <<>> => mainPc \in AfterLiveEdit)
    /\ (chPc = "for" => mChannels = <<Channel>> /\ liveSessionHeld /\ stageHeld)
    /\ (Len(teardown) >= 3 => chPc = "done" /\ mChannels = <<>>)
    /\ (Len(teardown) < 3 /\ chPc # "unstarted" => mChannels = <<Channel>>)
    /\ (liveSessionHeld <=> Len(teardown) < 4)
    /\ (stageHeld <=> Len(teardown) < 5)
    /\ (~liveSessionHeld => sessionState \in {"merged", "left"})
    /\ (sessionState = "left" => ~liveSessionHeld)

C3_Witness ==
    /\ mainPc = "done"
    /\ teardown = TeardownOrder
    /\ sessionState = "left"
    /\ mergeProcessed

\* ========================================================================
\* omnicli.cpp: join / send / leave
\* ========================================================================

\* OmniClientResult values a callback can deliver.
Results == {"Ok", "OkLatest", "OkNotYetFound", "ErrorConnection"}

\* int resultToRetcode(OmniClientResult result)
ResultToRetcode(result) ==
    IF result \in {"Ok", "OkLatest", "OkNotYetFound"}
    THEN "EXIT_SUCCESS"
    ELSE "EXIT_FAILURE"

\* Argument vectors of the three commands (args[1] is the command name).
ChannelUrls == {"chanA", "chanB"}
JoinArgs == {<<"join">>} \cup {<<"join", u>> : u \in ChannelUrls}
SendArgs == {<<"send">>, <<"send", "hello">>}

\* The channel state a command starts from.
ChanState == [g_channel |-> g_channel, requestUrl |-> requestUrl,
              activeRequests |-> activeRequests, joinRetCode |-> joinRetCode,
              sendCalls |-> sendCalls, sendTarget |-> sendTarget]

\* (as StopChannel, without the omniClientStop call)
StopChannel_NoStop(ch, active) == active

\* if (g_channel != 0) { omniClientStop(g_channel); g_channel = 0; }
\* gives the requests still active afterwards.
StopChannel(ch, active) == IF ch # 0 THEN active \ {ch} ELSE active

\* (as NotInChannel, with the test missing)
NotInChannel_NoTest(ch) == FALSE

\* sendMessage: if (g_channel == 0)
NotInChannel(ch) == ch = 0

InitChannel ==
    /\ LiveIdle /\ ChanIdle /\ TokIdle /\ AclIdle /\ UrlIdle /\ UsdIdle /\ ZoneIdle
    /\ SensorIdle /\ HelloIdle /\ ArgsIdle

\* int joinChannel(ArgVec const& args)
\* omniClientJoinChannel hands out a fresh request id, or 0 when it starts no
\* request; the callback may set the static retCode before omniClientWait
\* returns ("none": it has not run).
JoinChannel ==
    \E args \in JoinArgs :
       IF Len(args) <= 1
       THEN /\ chanLast' = [cmd |-> "join", args |-> args, pre |-> ChanState,
                            ret |-> "EXIT_FAILURE", out |-> "Not enough arguments"]
            /\ chanPrev' = chanLast.cmd
            /\ UNCHANGED <<g_channel, requestUrl, activeRequests, joinRetCode,
                           sendCalls, sendTarget>>
            /\ ChanOnly
       ELSE /\ Len(requestUrl) < MaxRequests
            /\ \E started \in BOOLEAN, cb \in Results \cup {"none"} :
                  LET remaining == StopChannel(g_channel, activeRequests)
                      id == IF started THEN Len(requestUrl) + 1 ELSE 0
                      code == IF cb = "none" THEN joinRetCode ELSE ResultToRetcode(cb)
                  IN  /\ g_channel' = id
                      /\ requestUrl' = IF started THEN Append(requestUrl, args[2])
                                       ELSE requestUrl
                      /\ activeRequests' = IF started THEN remaining \cup {id} ELSE remaining
                      /\ joinRetCode' = code
                      /\ chanLast' = [cmd |-> "join", args |-> args, pre |-> ChanState,
                                      ret |-> code, out |-> ""]
            /\ chanPrev' = chanLast.cmd
            /\ UNCHANGED <<sendCalls, sendTarget>>
            /\ ChanOnly

\* int leaveChannel(ArgVec const&)
LeaveChannel ==
    /\ activeRequests' = StopChannel(g_channel, activeRequests)
    /\ g_channel' = 0
    /\ chanLast' = [cmd |-> "leave", args |-> <<"leave">>, pre |-> ChanState,
                    ret |-> "EXIT_SUCCESS", out |-> ""]
    /\ chanPrev' = chanLast.cmd
    /\ UNCHANGED <<requestUrl, joinRetCode, sendCalls, sendTarget>>
    /\ ChanOnly

\* int sendMessage(ArgVec const& args)
SendMessage ==
    \E args \in SendArgs :
       IF NotInChannel(g_channel)
       THEN /\ chanLast' = [cmd |-> "send", args |-> args, pre |-> ChanState,
                            ret |-> "EXIT_FAILURE", out |-> "Not in a channel"]
            /\ chanPrev' = chanLast.cmd
            /\ UNCHANGED <<g_channel, requestUrl, activeRequests, joinRetCode,
                           sendCalls, sendTarget>>
            /\ ChanOnly
       ELSE /\ sendCalls < MaxSends
            /\ sendCalls' = sendCalls + 1
            /\ sendTarget' = g_channel
            /\ \E cb \in Results \cup {"none"} :
                  chanLast' = [cmd |-> "send", args |-> args, pre |-> ChanState,
                               ret |-> IF cb = "none" THEN "EXIT_FAILURE"
                                       ELSE ResultToRetcode(cb),
                               out |-> ""]
            /\ chanPrev' = chanLast.cmd
            /\ UNCHANGED <<g_channel, requestUrl, activeRequests, joinRetCode>>
            /\ ChanOnly

NextChannel == JoinChannel \/ LeaveChannel \/ SendMessage

SpecChannel == InitChannel /\ [][NextChannel]_vars

\* C4: at most one channel request is active, and it is the one g_channel
\* names; a join with a URL issued while a channel was joined has stopped the
\* earlier request; a join rejected for missing arguments returns EXIT_FAILURE
\* and leaves g_channel and the active requests unchanged.
C4_OneChannel ==
    /\ Cardinality(activeRequests) <= 1
    /\ activeRequests = (IF g_channel = 0 THEN {} ELSE {g_channel})
    /\ (chanLast.cmd = "join" /\ Len(chanLast.args) > 1 /\ chanLast.pre.g_channel # 0 =>
           /\ chanLast.pre.g_channel \notin activeRequests
           /\ g_channel # chanLast.pre.g_channel)
    /\ (chanLast.cmd = "join" /\ Len(chanLast.args) <= 1 =>
           /\ chanLast.ret = "EXIT_FAILURE"
           /\ g_channel = chanLast.pre.g_channel
           /\ activeRequests = chanLast.pre.activeRequests)

C4_Witness ==
    /\ chanLast.cmd = "join" /\ Len(chanLast.args) > 1
    /\ chanLast.pre.g_channel # 0
    /\ g_channel # 0
    /\ activeRequests = {g_channel}

\* C5: send with no channel joined prints "Not in a channel", returns
\* EXIT_FAILURE and makes no omniClientSendMessage call; send with a channel
\* joined makes exactly one call, to that channel; leave returns EXIT_SUCCESS
\* and leaves no channel joined; a leave right after a leave changes nothing.
C5_SendLeave ==
    /\ (chanLast.cmd = "send" /\ chanLast.pre.g_channel = 0 =>
           /\ chanLast.out = "Not in a channel"
           /\ chanLast.ret = "EXIT_FAILURE"
           /\ sendCalls = chanLast.pre.sendCalls
           /\ sendTarget = chanLast.pre.sendTarget)
    /\ (chanLast.cmd = "send" /\ chanLast.pre.g_channel # 0 =>
           /\ sendCalls = chanLast.pre.sendCalls + 1
           /\ sendTarget = chanLast.pre.g_channel
           /\ sendTarget \in chanLast.pre.activeRequests)
    /\ (chanLast.cmd = "none" => sendCalls = 0)
    /\ (chanLast.cmd = "leave" =>
           /\ chanLast.ret = "EXIT_SUCCESS"
           /\ g_channel = 0
           /\ activeRequests = {})
    /\ (chanLast.cmd = "leave" /\ chanPrev = "leave" => ChanState = chanLast.pre)

C5_Witness ==
    /\ chanLast.cmd = "send" /\ chanPrev = "leave"
    /\ requestUrl # <<>>
    /\ chanLast.out = "Not in a channel"
    /\ sendCalls = chanLast.pre.sendCalls

\* ========================================================================
\* omnicli.cpp: tokenize
\* ========================================================================

\* The characters of a line, by name: "a" stands for any character that is
\* not white space, a double quote, a backslash or a line feed.
LineChars == {"a", "sp", "tab", "quote", "bslash"}

\* All sequences over S of length n, and of length at most n.
SeqsOfLen(S, n) == [1..n -> S]
SeqsUpTo(S, n) == UNION {SeqsOfLen(S, k) : k \in 0..n}

\* The lines fgets delivers: no line feed except possibly as the last character.
Lines == {body \o end : body \in SeqsUpTo(LineChars, MaxLine), end \in {<<>>, <<"nl">>}}

\* n copies of character c.
Rep(c, n) == [i \in 1..n |-> c]

\* *p == ' ' || *p == '\t'
IsWhite(c) == c = "sp" \/ c = "tab"

\* (as QuoteBackslashes, keeping every backslash)
QuoteBackslashes_All(count) == count

\* token.append(backslashCount / 2, '\\'): backslashes kept before a quote
QuoteBackslashes(count) == count \div 2

\* after the loop: if (backslashCount > 0) token.append(backslashCount, '\\')
TrailingBackslashes(count) == count

\* after the loop: if (!token.empty()) tokens.emplace_back(...)
KeepToken(tok) == tok # <<>>

\* The local variables of tokenize.
TokState == [inWhiteSpace |-> inWhiteSpace, inQuote |-> inQuote,
             backslashCount |-> backslashCount, token |-> token,
             tokens |-> tokens]

\* One iteration of the for loop on character c, after the tests for the end
\* of the line: the new values of the local variables.  backslashCount is a
\* uint32_t and the line has fewer than 5000 characters (char line[5000]), so
\* the count never wraps.
TokChar(st, c) ==
    IF st.inWhiteSpace /\ IsWhite(c)
    THEN st
    ELSE LET s1 == [st EXCEPT !.inWhiteSpace = FALSE] IN
         IF c = "bslash"
         THEN [s1 EXCEPT !.backslashCount = @ + 1]
         ELSE IF c = "quote"
         THEN LET kept == s1.token \o Rep("bslash", QuoteBackslashes(s1.backslashCount)) IN
              IF s1.backslashCount % 2 = 1
              THEN [s1 EXCEPT !.token = Append(kept, "quote"), !.backslashCount = 0]
              ELSE [s1 EXCEPT !.token = kept, !.inQuote = ~@, !.backslashCount = 0]
         ELSE LET s2 == [s1 EXCEPT !.token = @ \o Rep("bslash", s1.backslashCount),
                                   !.backslashCount = 0] IN
              IF ~s2.inQuote /\ IsWhite(c)
              THEN [s2 EXCEPT !.tokens = Append(@, s2.token), !.token = <<>>,
                              !.inWhiteSpace = TRUE]
              ELSE [s2 EXCEPT !.token = Append(@, c)]

InitTok ==
    /\ LiveIdle /\ ChanIdle /\ AclIdle /\ UrlIdle /\ UsdIdle /\ ZoneIdle
    /\ SensorIdle /\ HelloIdle /\ ArgsIdle
    /\ line \in Lines
    /\ p = 1
    /\ inWhiteSpace = TRUE
    /\ inQuote = FALSE
    /\ backslashCount = 0
    /\ token = <<>>
    /\ tokens = <<>>
    /\ tokPc = "loop"

\* for (char const* p = line; *p; p++) { if (*p == '\n') break; ... }
TokLoop ==
    /\ tokPc = "loop"
    /\ IF p > Len(line) \/ line[p] = "nl"
       THEN /\ tokPc' = "after"
            /\ UNCHANGED <<p, inWhiteSpace, inQuote, backslashCount, token, tokens>>
       ELSE LET st == TokChar(TokState, line[p]) IN
            /\ inWhiteSpace' = st.inWhiteSpace
            /\ inQuote' = st.inQuote
            /\ backslashCount' = st.backslashCount
            /\ token' = st.token
            /\ tokens' = st.tokens
            /\ p' = p + 1
            /\ tokPc' = "loop"
    /\ UNCHANGED line
    /\ TokOnly

\* after the loop: flush the backslashes and the last token; return tokens
TokReturn ==
    /\ tokPc = "after"
    /\ LET last == token \o Rep("bslash", TrailingBackslashes(backslashCount)) IN
          /\ tokens' = IF KeepToken(last) THEN Append(tokens, last) ELSE tokens
          /\ token' = <<>>
    /\ tokPc' = "done"
    /\ UNCHANGED <<line, p, inWhiteSpace, inQuote, backslashCount>>
    /\ TokOnly

NextTok == TokLoop \/ TokReturn

SpecTok == InitTok /\ [][NextTok]_vars

\* ---- the tokenizing rules, stated on the whole line ----

\* The line up to its line feed.
LineBody(l) ==
    IF \E i \in 1..Len(l) : l[i] = "nl"
    THEN SubSeq(l, 1, (CHOOSE i \in 1..Len(l) :
                          l[i] = "nl" /\ \A j \in 1..(i - 1) : l[j] # "nl") - 1)
    ELSE l

\* Length of the run of backslashes that starts at position i of l.
RECURSIVE BackslashRun(_, _)
BackslashRun(l, i) ==
    IF i <= Len(l) /\ l[i] = "bslash" THEN 1 + BackslashRun(l, i + 1) ELSE 0

\* What the rules make of l from position i on, inQ telling whether a quoted
\* string is open: the literal characters in order, with "Q" for a double
\* quote that delimits a string and "|" for a white space that delimits
\* arguments.  A run of k backslashes followed by a double quote gives k/2
\* backslashes and a delimiter (k even) or a literal quote (k odd); any other
\* run of k backslashes gives k backslashes.
RECURSIVE RuleItems(_, _, _)
RuleItems(l, i, inQ) ==
    IF i > Len(l) THEN <<>>
    ELSE IF l[i] = "bslash" THEN
        LET k == BackslashRun(l, i)
            j == i + k
        IN  IF j <= Len(l) /\ l[j] = "quote"
            THEN IF k % 2 = 1
                 THEN Rep("bslash", k \div 2) \o <<"quote">> \o RuleItems(l, j + 1, inQ)
                 ELSE Rep("bslash", k \div 2) \o <<"Q">> \o RuleItems(l, j + 1, ~inQ)
            ELSE Rep("bslash", k) \o RuleItems(l, j, inQ)
    ELSE IF l[i] = "quote" THEN <<"Q">> \o RuleItems(l, i + 1, ~inQ)
    ELSE IF IsWhite(l[i]) /\ ~inQ THEN <<"|">> \o RuleItems(l, i + 1, inQ)
    ELSE <<l[i]>> \o RuleItems(l, i + 1, inQ)

IsLiteral(x) == x # "Q" /\ x # "|"
IsQuoteMark(x) == x = "Q"

\* The maximal runs of items between "|" delimiters, in order.
RECURSIVE RuleRuns(_)
RuleRuns(items) ==
    IF items = <<>> THEN << <<>> >>
    ELSE LET rest == RuleRuns(Tail(items)) IN
         IF Head(items) = "|"
         THEN << <<>> >> \o rest
         ELSE << <<Head(items)>> \o Head(rest) >> \o Tail(rest)

\* A run is an argument when it holds a literal character or a string
\* surrounded by double quotation marks (two delimiting quotes).
IsArgument(run) ==
    \/ \E i \in 1..Len(run) : IsLiteral(run[i])
    \/ Len(SelectSeq(run, IsQuoteMark)) >= 2

RECURSIVE RuleArguments(_)
RuleArguments(runs) ==
    IF runs = <<>> THEN <<>>
    ELSE (IF IsArgument(Head(runs))
          THEN << SelectSeq(Head(runs), IsLiteral) >>
          ELSE <<>>) \o RuleArguments(Tail(runs))

\* The arguments of a line by the rules.
RuleTokens(l) == RuleArguments(RuleRuns(RuleItems(LineBody(l), 1, FALSE)))

\* The literal characters of a line by the rules, in order.
RuleLiterals(l) == SelectSeq(RuleItems(LineBody(l), 1, FALSE), IsLiteral)

\* All characters of a list of tokens, in order.
RECURSIVE Flatten(_)
Flatten(toks) == IF toks = <<>> THEN <<>> ELSE Head(toks) \o Flatten(Tail(toks))

\* C6: for every line the tokens returned are the arguments the rules give:
\* arguments are delimited by unquoted spaces and tabs, every string
\* surrounded by double quotation marks, whatever its content and wherever it
\* stands, is part of one argument, white space inside it included, and the
\* delimiting quotes are dropped.
C6_TokensFollowRules == tokPc = "done" => tokens = RuleTokens(line)

\* C7: the characters of the returned tokens are exactly the literal
\* characters the backslash rules give: k backslashes before a double quote
\* leave k/2 backslashes, and the quote delimits a string (k even) or is a
\* literal quote (k odd); k backslashes not before a double quote, the end of
\* the line included, leave k backslashes.
C7_BackslashRule == tokPc = "done" => Flatten(tokens) = RuleLiterals(line)

C7_Witness ==
    /\ tokPc = "done"
    /\ line = <<"bslash", "bslash", "quote", "sp", "bslash">>
    /\ tokens = << <<"bslash", "sp", "bslash">> >>

\* ========================================================================
\* omnicli.cpp: setacls
\* ========================================================================

\* fOmniClientAccess_Read, fOmniClientAccess_Write, fOmniClientAccess_Admin; an
\* access value (uint16_t, flags or-ed together) is the set of its flags.
AccessFlags == {"Read", "Write", "Admin"}

\* Users and groups.
AclNames == {"alice", "bob"}

\* Characters of the access argument ("x": any character setacls rejects).
AccessChars == {"r", "W", "a", "A", "-", "x"}

\* (as ToUpper, leaving every character as it is)
ToUpper_Identity(c) == c

\* toupper
ToUpper(c) ==
    CASE c = "r" -> "R"
      [] c = "w" -> "W"
      [] c = "a" -> "A"
      [] OTHER -> c

\* Argument vectors of setacls (args[1] is the command name).
SetaclsArgs ==
    {<<"setacls", "url", n>> : n \in AclNames}
    \cup {<<"setacls", "url", n, acc>> :
             n \in AclNames, acc \in SeqsUpTo(AccessChars, MaxAccessLen)}

\* ACL lists the server may hold at the start; the same name may occur twice.
InitialAcls ==
    SeqsUpTo([name : AclNames, access : {{}, {"Read"}, AccessFlags}], MaxAcls)

\* for (char const* p = accessStr; *p; p++) switch (toupper(*p)) ...
\* from position i on; ok is false when an unknown character is met.
RECURSIVE ParseAccess(_, _, _, _)
ParseAccess(str, i, access, removeEntry) ==
    IF i > Len(str) THEN [ok |-> TRUE, access |-> access, removeEntry |-> removeEntry]
    ELSE LET c == ToUpper(str[i]) IN
         IF c = "A" THEN ParseAccess(str, i + 1, access \cup {"Admin"}, removeEntry)
         ELSE IF c = "W" THEN ParseAccess(str, i + 1, access \cup {"Write"}, removeEntry)
         ELSE IF c = "R" THEN ParseAccess(str, i + 1, access \cup {"Read"}, removeEntry)
         ELSE IF c = "-" THEN ParseAccess(str, i + 1, access, TRUE)
         ELSE [ok |-> FALSE, access |-> access, removeEntry |-> removeEntry]

\* (as OtherEntries, keeping the entries of the name as well)
OtherEntries_All(fetched, name) == fetched

\* the loop over getAclsResult.entries: the entries of other names, in order
OtherEntries(fetched, name) ==
    LET Other(e) == e.name # name IN SelectSeq(fetched, Other)

\* the loop over getAclsResult.entries: found
Found(fetched, name) == \E i \in 1..Len(fetched) : fetched[i].name = name

InitAcls ==
    /\ LiveIdle /\ ChanIdle /\ TokIdle /\ UrlIdle /\ UsdIdle /\ ZoneIdle
    /\ SensorIdle /\ HelloIdle /\ ArgsIdle
    /\ serverAcls \in InitialAcls
    /\ aclPc = "prompt"
    /\ aclLast = NoCommand

\* A setacls command that returns before it calls omniClientSetAcls.
SetaclsFails(args, fetch, out) ==
    /\ aclLast' = [cmd |-> "setacls", args |-> args, fetch |-> fetch,
                   fetched |-> IF fetch = "none" THEN <<>> ELSE serverAcls,
                   setCalled |-> FALSE, sent |-> <<>>,
                   ret |-> "EXIT_FAILURE", out |-> out]
    /\ UNCHANGED serverAcls

\* int setacls(ArgVec const& args)
\* fetch is the result omniClientGetAcls delivers, set the result
\* omniClientSetAcls delivers.
Setacls ==
    /\ aclPc = "prompt"
    /\ aclPc' = "ran"
    /\ \E args \in SetaclsArgs, fetch \in {"Ok", "ErrorAccessDenied"},
          set \in {"Ok", "ErrorAccessDenied"} :
          IF Len(args) <= 3
          THEN SetaclsFails(args, "none", "Not enough arguments")
          ELSE LET name == args[3]
                   parsed == ParseAccess(args[4], 1, {}, FALSE)
                   others == OtherEntries(serverAcls, name)
                   entries == IF parsed.removeEntry THEN others
                              ELSE Append(others, [name |-> name, access |-> parsed.access])
               IN  IF ~parsed.ok
                   THEN SetaclsFails(args, "none", "Unknown access")
                   ELSE IF fetch # "Ok"
                   THEN SetaclsFails(args, fetch, fetch)
                   ELSE IF parsed.removeEntry /\ ~Found(serverAcls, name)
                   THEN SetaclsFails(args, fetch, "not in the ACLs list")
                   ELSE /\ aclLast' = [cmd |-> "setacls", args |-> args, fetch |-> fetch,
                                       fetched |-> serverAcls, setCalled |-> TRUE,
                                       sent |-> entries, ret |-> ResultToRetcode(set),
                                       out |-> IF set = "Ok" THEN "" ELSE set]
                        /\ serverAcls' = IF set = "Ok" THEN entries ELSE serverAcls
    /\ AclOnly

\* main: the next turn of the command loop
AclPrompt ==
    /\ aclPc = "ran"
    /\ aclPc' = "prompt"
    /\ aclLast' = NoCommand
    /\ UNCHANGED serverAcls
    /\ AclOnly

NextAcls == Setacls \/ AclPrompt

SpecAcls == InitAcls /\ [][NextAcls]_vars

\* ---- what the claims say of one setacls command ----

HasChar(str, c) == \E i \in 1..Len(str) : str[i] = c
KnownAccess(str) == \A i \in 1..Len(str) : str[i] \in {"r", "w", "a", "R", "W", "A", "-"}

\* The union of the flags of the letters in str, whatever their case.
AccessOf(str) ==
    {f \in AccessFlags :
        \E i \in 1..Len(str) :
           \/ f = "Read" /\ str[i] \in {"r", "R"}
           \/ f = "Write" /\ str[i] \in {"w", "W"}
           \/ f = "Admin" /\ str[i] \in {"a", "A"}}

\* The positions of l whose entry has another name than n, as a list.
EntriesNotOf(l, n) ==
    LET idx == {i \in 1..Len(l) : l[i].name # n}
        Rank(i) == Cardinality({j \in idx : j <= i})
    IN  [k \in 1..Cardinality(idx) |-> l[CHOOSE i \in idx : Rank(i) = k]]

RanSetacls == aclPc = "ran" /\ aclLast.cmd = "setacls" /\ Len(aclLast.args) > 3

\* C8: a setacls whose access string contains '-' either sends the fetched
\* entries of all other names, in order, and no entry of the name, or, when
\* the name is not in the fetched list, the access string has an unknown
\* character or the fetch fails, returns EXIT_FAILURE without calling
\* omniClientSetAcls (and without fetching when a character is unknown).
C8_RemoveEntry ==
    RanSetacls /\ HasChar(aclLast.args[4], "-") =>
       LET name == aclLast.args[3]
           acc == aclLast.args[4]
           inList == \E i \in 1..Len(aclLast.fetched) : aclLast.fetched[i].name = name
       IN  IF ~KnownAccess(acc) \/ aclLast.fetch # "Ok" \/ ~inList
           THEN /\ KnownAccess(acc) <=> aclLast.fetch # "none"
                /\ aclLast.ret = "EXIT_FAILURE"
                /\ ~aclLast.setCalled
                /\ aclLast.sent = <<>>
           ELSE /\ aclLast.setCalled
                /\ aclLast.sent = EntriesNotOf(aclLast.fetched, name)
                /\ \A i \in 1..Len(aclLast.sent) : aclLast.sent[i].name # name

C8_Witness ==
    /\ RanSetacls
    /\ aclLast.args[4] = <<"-">>
    /\ aclLast.setCalled
    /\ Len(aclLast.fetched) = 2
    /\ Len(aclLast.sent) = 1
    /\ serverAcls = aclLast.sent

\* C9: a setacls whose access string has no '-' and only the letters r, w, a
\* (in either case) sends, once the fetch has succeeded, the fetched entries
\* of all other names unchanged and in order, followed by one entry of the
\* name whose access is the union of the letters' flags; it sends nothing when
\* the fetch fails or a character is unknown, and it fetches the ACLs exactly
\* when every character is known.
C9_SetEntry ==
    RanSetacls /\ ~HasChar(aclLast.args[4], "-") =>
       LET name == aclLast.args[3]
           acc == aclLast.args[4]
       IN  IF KnownAccess(acc) /\ aclLast.fetch = "Ok"
           THEN /\ aclLast.setCalled
                /\ aclLast.sent = Append(EntriesNotOf(aclLast.fetched, name),
                                         [name |-> name, access |-> AccessOf(acc)])
                /\ Cardinality({i \in 1..Len(aclLast.sent) :
                                   aclLast.sent[i].name = name}) = 1
           ELSE /\ KnownAccess(acc) <=> aclLast.fetch # "none"
                /\ ~aclLast.setCalled
                /\ aclLast.ret = "EXIT_FAILURE"

C9_Witness ==
    /\ RanSetacls
    /\ aclLast.args[4] = <<"r", "W">>
    /\ aclLast.setCalled
    /\ Len(aclLast.fetched) = 2
    /\ aclLast.fetched[1].name = aclLast.args[3]
    /\ aclLast.fetched[2].name # aclLast.args[3]
    /\ aclLast.sent[2] = [name |-> aclLast.args[3], access |-> {"Read", "Write"}]

\* ========================================================================
\* omnicli.cpp: cd / push / pop
\* ========================================================================

\* Characters of a URL: "a" stands for any character other than '/'.
UrlChars == {"a", "/"}

\* Argument vectors of cd and push (args[1] is the command name).
CdArgs(cmd) == {<<cmd>>} \cup {<<cmd, u>> : u \in SeqsUpTo(UrlChars, MaxArgLen)}

\* omniClientPushBaseUrl: the URL becomes the top of the library's stack.
PushBaseUrl(stack, url) == Append(stack, url)

\* omniClientPopBaseUrl(nullptr): the top of the library's stack is removed;
\* on an empty stack the call does nothing.
PopBaseUrl(stack) ==
    IF stack = <<>> THEN stack ELSE SubSeq(stack, 1, Len(stack) - 1)

\* omniClientCombineWithBaseUrl: path made absolute against the top of the
\* stack; a path that starts with '/' replaces the base, and with no base URL
\* the path stands as it is.
CombineWithBaseUrl(stack, path) ==
    IF stack = <<>> \/ (path # <<>> /\ path[1] = "/")
    THEN path
    ELSE stack[Len(stack)] \o path

\* cd: if (arg.empty() || arg.back() != '/') arg.push_back('/');
WithSlash(arg) ==
    IF arg = <<>> \/ arg[Len(arg)] # "/" THEN Append(arg, "/") ELSE arg

\* (as CdStack, without the pop of cd)
CdStack_NeverPop(stack, combined, push) == PushBaseUrl(stack, combined)

\* cd: if (!push) omniClientPopBaseUrl(nullptr); omniClientPushBaseUrl(combined)
CdStack(stack, combined, push) ==
    PushBaseUrl(IF push THEN stack ELSE PopBaseUrl(stack), combined)

InitBaseUrl ==
    /\ LiveIdle /\ ChanIdle /\ TokIdle /\ AclIdle /\ UsdIdle /\ ZoneIdle
    /\ SensorIdle /\ HelloIdle /\ ArgsIdle
    /\ baseUrls = <<>>
    /\ urlLast = NoCommand
    /\ urlPrev = NoCommand

\* int cd(ArgVec const& args, bool push), run as command cmd
CdOrPush(cmd, args, push) ==
       IF Len(args) = 1
       THEN /\ urlLast' = [cmd |-> cmd, args |-> args, pre |-> baseUrls,
                           ret |-> "EXIT_SUCCESS",
                           out |-> CombineWithBaseUrl(baseUrls, <<".">>)]
            /\ urlPrev' = urlLast
            /\ UNCHANGED baseUrls
            /\ UrlOnly
       ELSE LET combined == CombineWithBaseUrl(baseUrls, WithSlash(args[2])) IN
            IF combined = <<>>
            THEN /\ urlLast' = [cmd |-> cmd, args |-> args, pre |-> baseUrls,
                                ret |-> "EXIT_FAILURE", out |-> <<>>]
                 /\ urlPrev' = urlLast
                 /\ UNCHANGED baseUrls
                 /\ UrlOnly
            ELSE /\ Len(combined) <= MaxUrlLen
                 /\ Len(CdStack(baseUrls, combined, push)) <= MaxDepth
                 /\ baseUrls' = CdStack(baseUrls, combined, push)
                 /\ urlLast' = [cmd |-> cmd, args |-> args, pre |-> baseUrls,
                                ret |-> "EXIT_SUCCESS", out |-> combined]
                 /\ urlPrev' = urlLast
                 /\ UrlOnly

\* int cd(ArgVec const& args)
Cd == \E args \in CdArgs("cd") : CdOrPush("cd", args, FALSE)

\* int push(ArgVec const& args)
Push == \E args \in CdArgs("push") : CdOrPush("push", args, TRUE)

\* int pop(ArgVec const&)
Pop ==
    /\ baseUrls' = PopBaseUrl(baseUrls)
    /\ urlLast' = [cmd |-> "pop", args |-> <<"pop">>, pre |-> baseUrls,
                   ret |-> "EXIT_SUCCESS", out |-> <<>>]
    /\ urlPrev' = urlLast
    /\ UrlOnly

NextBaseUrl == Cd \/ Push \/ Pop

SpecBaseUrl == InitBaseUrl /\ [][NextBaseUrl]_vars

\* The last command was cmd and had a URL argument.
RanWithUrl(last, cmd) == last.cmd = cmd /\ Len(last.args) > 1

\* C10 as stated: push <url> adds one entry, pop removes one, cd <url>
\* replaces the top entry without growing the stack, a pop after a push
\* restores the stack of before the push, and cd or push without an argument
\* changes nothing.
C10_AsStated ==
    /\ (RanWithUrl(urlLast, "push") => Len(baseUrls) = Len(urlLast.pre) + 1)
    /\ (urlLast.cmd = "pop" => Len(baseUrls) = Len(urlLast.pre) - 1)
    /\ (RanWithUrl(urlLast, "cd") => Len(baseUrls) = Len(urlLast.pre))
    /\ (urlLast.cmd = "pop" /\ RanWithUrl(urlPrev, "push") => baseUrls = urlPrev.pre)
    /\ (urlLast.cmd \in {"cd", "push"} /\ Len(urlLast.args) = 1 =>
           baseUrls = urlLast.pre)

\* C10, amended: push <url> adds one entry on top of the unchanged stack; pop
\* removes the top entry of a stack that is not empty and does nothing to an
\* empty one; cd <url> replaces the top entry of a stack that is not empty,
\* leaving the entries below and the depth unchanged, and adds the first entry
\* to an empty one; a pop after a push restores the stack of before the push;
\* cd or push without an argument changes nothing and returns EXIT_SUCCESS.
C10_BaseUrlStack ==
    /\ (RanWithUrl(urlLast, "push") =>
           /\ Len(baseUrls) = Len(urlLast.pre) + 1
           /\ SubSeq(baseUrls, 1, Len(urlLast.pre)) = urlLast.pre)
    /\ (urlLast.cmd = "pop" /\ urlLast.pre # <<>> =>
           /\ Len(baseUrls) = Len(urlLast.pre) - 1
           /\ baseUrls = SubSeq(urlLast.pre, 1, Len(baseUrls)))
    /\ (urlLast.cmd = "pop" /\ urlLast.pre = <<>> => baseUrls = <<>>)
    /\ (RanWithUrl(urlLast, "cd") /\ urlLast.pre # <<>> =>
           /\ Len(baseUrls) = Len(urlLast.pre)
           /\ SubSeq(baseUrls, 1, Len(baseUrls) - 1)
                 = SubSeq(urlLast.pre, 1, Len(urlLast.pre) - 1))
    /\ (RanWithUrl(urlLast, "cd") /\ urlLast.pre = <<>> => Len(baseUrls) = 1)
    /\ (RanWithUrl(urlLast, "cd") \/ RanWithUrl(urlLast, "push") =>
           /\ urlLast.ret = "EXIT_SUCCESS"
           /\ baseUrls[Len(baseUrls)]
                 = CombineWithBaseUrl(urlLast.pre, WithSlash(urlLast.args[2])))
    /\ (urlLast.cmd = "pop" /\ RanWithUrl(urlPrev, "push") => baseUrls = urlPrev.pre)
    /\ (urlLast.cmd \in {"cd", "push"} /\ Len(urlLast.args) = 1 =>
           baseUrls = urlLast.pre /\ urlLast.ret = "EXIT_SUCCESS")

C10_Witness ==
    /\ urlLast.cmd = "pop"
    /\ RanWithUrl(urlPrev, "push")
    /\ urlPrev.pre # <<>>
    /\ baseUrls = urlPrev.pre

\* ========================================================================
\* omnicli.cpp: load / save / close / lock / unlock
\* ========================================================================

\* g_stage when no stage is loaded (a null UsdStageRefPtr).
NullStage == <<>>

\* URLs of USD files.
UsdUrls == {<<"a">>, <<"a", "a">>}

\* Argument vectors (args[1] is the command name).
LoadArgs == {<<"load">>} \cup {<<"load", u>> : u \in UsdUrls}
SaveArgs == {<<"save">>} \cup {<<"save", u>> : u \in UsdUrls}
LockArgs(cmd) == {<<cmd>>} \cup {<<cmd, u>> : u \in UsdUrls}

\* The state a command starts from.
UsdState == [g_stage |-> g_stage, lockedUrls |-> lockedUrls,
             savedUrls |-> savedUrls, closedSinceLoad |-> closedSinceLoad]

\* (as NoStage, taking every stage for a loaded one)
NoStage_NoTest(stage) == FALSE

\* if (!g_stage)
NoStage(stage) == stage = NullStage

\* g_stage = PXR_NS::UsdStage::Open(args[1].data()): null when the open fails
OpenStage(old, url, opened) == IF opened THEN url ELSE NullStage

\* A command that returns ret without having changed anything.
UsdReturns(cmd, args, ret, out) ==
    /\ usdLast' = [cmd |-> cmd, args |-> args, pre |-> UsdState, ret |-> ret,
                   out |-> out, called |-> FALSE, url |-> <<>>]
    /\ usdPrev' = [cmd |-> usdLast.cmd, ret |-> usdLast.ret]
    /\ UNCHANGED <<g_stage, lockedUrls, savedUrls, closedSinceLoad>>
    /\ UsdOnly

InitUsd ==
    /\ LiveIdle /\ ChanIdle /\ TokIdle /\ AclIdle /\ UrlIdle /\ ZoneIdle
    /\ SensorIdle /\ HelloIdle /\ ArgsIdle
    /\ g_stage = NullStage
    /\ lockedUrls = {}
    /\ savedUrls = {}
    /\ closedSinceLoad = FALSE
    /\ usdLast = [cmd |-> "none", ret |-> "none"]
    /\ usdPrev = [cmd |-> "none", ret |-> "none"]

\* int loadUsd(ArgVec const& args)
\* opened: UsdStage::Open returns a stage.
LoadUsd ==
    \E args \in LoadArgs, opened \in BOOLEAN :
       IF Len(args) <= 1
       THEN UsdReturns("load", args, "EXIT_FAILURE", "Not enough arguments")
       ELSE /\ g_stage' = OpenStage(g_stage, args[2], opened)
            /\ closedSinceLoad' = IF opened THEN FALSE ELSE closedSinceLoad
            /\ usdLast' = [cmd |-> "load", args |-> args, pre |-> UsdState,
                           ret |-> IF NoStage(g_stage') THEN "EXIT_FAILURE"
                                   ELSE "EXIT_SUCCESS",
                           out |-> "", called |-> TRUE, url |-> args[2]]
            /\ usdPrev' = [cmd |-> usdLast.cmd, ret |-> usdLast.ret]
            /\ UNCHANGED <<lockedUrls, savedUrls>>
            /\ UsdOnly

\* int saveUsd(ArgVec const& args)
\* wrote: Save() / Export() wrote the file (Export returns it); clean: the
\* TfErrorMark is clean afterwards.
SaveUsd ==
    \E args \in SaveArgs, wrote \in BOOLEAN, clean \in BOOLEAN :
       IF NoStage(g_stage)
       THEN UsdReturns("save", args, "EXIT_FAILURE", "No USD loaded")
       ELSE LET target == IF Len(args) <= 1 THEN g_stage ELSE args[2] IN
            /\ savedUrls' = IF wrote THEN savedUrls \cup {target} ELSE savedUrls
            /\ usdLast' = [cmd |-> "save", args |-> args, pre |-> UsdState,
                           ret |-> IF Len(args) > 1 /\ ~wrote THEN "EXIT_FAILURE"
                                   ELSE IF clean THEN "EXIT_SUCCESS"
                                   ELSE "EXIT_FAILURE",
                           out |-> "", called |-> TRUE, url |-> target]
            /\ usdPrev' = [cmd |-> usdLast.cmd, ret |-> usdLast.ret]
            /\ UNCHANGED <<g_stage, lockedUrls, closedSinceLoad>>
            /\ UsdOnly

\* int closeUsd(ArgVec const&)
CloseUsd ==
    IF NoStage(g_stage)
    THEN UsdReturns("close", <<"close">>, "EXIT_FAILURE", "No USD loaded")
    ELSE /\ g_stage' = NullStage
         /\ closedSinceLoad' = TRUE
         /\ usdLast' = [cmd |-> "close", args |-> <<"close">>, pre |-> UsdState,
                        ret |-> "EXIT_SUCCESS", out |-> "", called |-> FALSE,
                        url |-> <<>>]
         /\ usdPrev' = [cmd |-> usdLast.cmd, ret |-> usdLast.ret]
         /\ UNCHANGED <<lockedUrls, savedUrls>>
         /\ UsdOnly

\* lock / unlock: the URL the command works on, <<>> when there is none
\* (g_stage->GetRootLayer()->GetRepositoryPath() is taken to be the URL the
\* stage was opened from).
LockUrl(args, stage, stack) ==
    IF Len(args) <= 1
    THEN IF ~NoStage(stage) THEN stage ELSE <<>>
    ELSE CombineWithBaseUrl(stack, args[2])

\* int lock(ArgVec const& args) and int unlock(ArgVec const& args)
\* result: what the callback of omniClientLock / omniClientUnlock delivers.
LockOrUnlock(cmd, args, result) ==
    LET url == LockUrl(args, g_stage, baseUrls) IN
    IF Len(args) <= 1 /\ url = <<>>
    THEN UsdReturns(cmd, args, "EXIT_FAILURE", "No URL specified and no USD loaded")
    ELSE /\ lockedUrls' = IF result # "Ok" THEN lockedUrls
                          ELSE IF cmd = "lock" THEN lockedUrls \cup {url}
                          ELSE lockedUrls \ {url}
         /\ usdLast' = [cmd |-> cmd, args |-> args, pre |-> UsdState,
                        ret |-> ResultToRetcode(result),
                        out |-> IF result = "Ok" THEN "" ELSE result,
                        called |-> TRUE, url |-> url]
         /\ usdPrev' = [cmd |-> usdLast.cmd, ret |-> usdLast.ret]
         /\ UNCHANGED <<g_stage, savedUrls, closedSinceLoad>>
         /\ UsdOnly

Lock == \E args \in LockArgs("lock"), result \in Results : LockOrUnlock("lock", args, result)

Unlock ==
    \E args \in LockArgs("unlock"), result \in Results : LockOrUnlock("unlock", args, result)

NextUsd == LoadUsd \/ SaveUsd \/ CloseUsd \/ Lock \/ Unlock

SpecUsd == InitUsd /\ [][NextUsd]_vars

\* A command that changed nothing and returned EXIT_FAILURE.
UsdFailedUnchanged ==
    /\ usdLast.ret = "EXIT_FAILURE"
    /\ UsdState = usdLast.pre

PauseSeconds == 5

\* if (step >= 360) step = 0
StepPeriod == 360

\* Values of argv[3]: "x" stands for any character that is neither a digit
\* nor a sign.
TimeoutArgs ==
    {<<>>, <<"x">>, <<"-", "1">>, <<"-", "6">>, <<"0">>, <<"6">>, <<"1", "1">>,
     <<"1", "x">>, <<"1", "6">>}

Digits == {"0", "1", "6"}

DigitValue(c) == CASE c = "0" -> 0 [] c = "1" -> 1 [] c = "6" -> 6

\* The value of the longest prefix of digits of s from position i on, acc
\* being the value of the digits read so far.
RECURSIVE DigitsValue(_, _, _)
DigitsValue(s, i, acc) ==
    IF i > Len(s) \/ s[i] \notin Digits THEN acc
    ELSE DigitsValue(s, i + 1, 10 * acc + DigitValue(s[i]))

\* std::strtol(argv[3], nullptr, 10): an optional sign and the digits that
\* follow it; 0 when there is no digit.
Strtol(s) ==
    IF s # <<>> /\ s[1] = "-" THEN 0 - DigitsValue(s, 2, 0)
    ELSE DigitsValue(s, 1, 0)

\* Seconds a pause of PauseSeconds may last, as std::time measures them.
PauseLengths == {PauseSeconds, PauseSeconds + 1}

\* (as KeepWaiting, going on while the elapsed time is not above the timeout)
KeepWaiting_Inclusive(t, elapsed) == t = -1 \/ elapsed <= t

\* main: while (timeout == -1 || elapsedTime < timeout)
KeepWaiting(t, elapsed) == t = -1 \/ elapsed < t

\* (as WorkerJoined, not waiting for the worker)
WorkerJoined_NoWait(pc) == TRUE

\* workerThread.join() returns once doWork has returned
WorkerJoined(pc) == pc = "done"

\* The worker uses the stage or the client library: counted in lateCalls when
\* the stage has been released or the library shut down.
LateCall == IF gStage /\ clientUp THEN lateCalls ELSE lateCalls + 1

InitSensor ==
    /\ LiveIdle /\ ChanIdle /\ TokIdle /\ AclIdle /\ UrlIdle /\ UsdIdle /\ ZoneIdle
    /\ HelloIdle /\ ArgsIdle
    /\ snPc = "start"
    /\ wkPc = "unstarted"
    /\ stopped = FALSE
    /\ timeoutArg \in TimeoutArgs
    /\ timeout = -1
    /\ elapsedTime = 0
    /\ now = 0
    /\ step = 0
    /\ gStage = FALSE
    /\ clientUp = FALSE
    /\ nChecks = 0
    /\ stopAt = [set |-> FALSE]
    /\ passedOver = FALSE
    /\ afterStop = [entries |-> 0, edits |-> 0, processes |-> 0]
    /\ lateCalls = 0

\* main, up to std::thread workerThread(...): the arguments are read, the
\* client library is started and the stage opened (exit(1) when that fails),
\* and the worker thread is created.
SensorStart ==
    /\ snPc = "start"
    /\ timeout' = Strtol(timeoutArg)
    /\ clientUp' = TRUE
    /\ \E opened \in BOOLEAN :
          /\ gStage' = opened
          /\ snPc' = IF opened THEN "while" ELSE "exited"
          /\ wkPc' = IF opened THEN "while" ELSE wkPc
    /\ UNCHANGED <<stopped, timeoutArg, elapsedTime, now, step, nChecks, stopAt,
                   passedOver, afterStop, lateCalls>>
    /\ SensorOnly

\* main: while (timeout == -1 || elapsedTime < timeout)
SensorWhile ==
    /\ snPc = "while"
    /\ IF KeepWaiting(timeout, elapsedTime)
       THEN /\ snPc' = "pause"
            /\ passedOver' = (passedOver \/ (nChecks > 0 /\ timeout # -1
                                             /\ elapsedTime >= timeout))
            /\ UNCHANGED stopAt
       ELSE /\ snPc' = "stop"
            /\ stopAt' = [set |-> TRUE, checks |-> nChecks, elapsed |-> elapsedTime]
            /\ UNCHANGED passedOver
    /\ UNCHANGED <<wkPc, stopped, timeoutArg, timeout, elapsedTime, now, step,
                   gStage, clientUp, nChecks, afterStop, lateCalls>>
    /\ SensorOnly

\* main: std::this_thread::sleep_for(pause); elapsedTime = newTime - startTime
SensorPause ==
    /\ snPc = "pause"
    /\ \E d \in PauseLengths :
          /\ now + d <= MaxClock
          /\ now' = now + d
          /\ elapsedTime' = now + d
    /\ nChecks' = nChecks + 1
    /\ snPc' = "while"
    /\ UNCHANGED <<wkPc, stopped, timeoutArg, timeout, step, gStage, clientUp,
                   stopAt, passedOver, afterStop, lateCalls>>
    /\ SensorOnly

\* main: stageWriter.stopped = true
SensorStop ==
    /\ snPc = "stop"
    /\ stopped' = TRUE
    /\ snPc' = "join"
    /\ UNCHANGED <<wkPc, timeoutArg, timeout, elapsedTime, now, step, gStage,
                   clientUp, nChecks, stopAt, passedOver, afterStop, lateCalls>>
    /\ SensorOnly

\* main: workerThread.join()
SensorJoin ==
    /\ snPc = "join"
    /\ WorkerJoined(wkPc)
    /\ snPc' = "shutdown"
    /\ UNCHANGED <<wkPc, stopped, timeoutArg, timeout, elapsedTime, now, step,
                   gStage, clientUp, nChecks, stopAt, passedOver, afterStop,
                   lateCalls>>
    /\ SensorOnly

\* shutdownOmniverse: omniClientLiveWaitForPendingUpdates(); gStage.Reset()
ResetGStage ==
    /\ snPc = "shutdown"
    /\ gStage' = FALSE
    /\ snPc' = "client_shutdown"
    /\ UNCHANGED <<wkPc, stopped, timeoutArg, timeout, elapsedTime, now, step,
                   clientUp, nChecks, stopAt, passedOver, afterStop, lateCalls>>
    /\ SensorOnly

\* shutdownOmniverse: omniClientSetLogCallback(nullptr); omniClientShutdown()
ClientShutdown ==
    /\ snPc = "client_shutdown"
    /\ clientUp' = FALSE
    /\ snPc' = "done"
    /\ UNCHANGED <<wkPc, stopped, timeoutArg, timeout, elapsedTime, now, step,
                   gStage, nChecks, stopAt, passedOver, afterStop, lateCalls>>
    /\ SensorOnly

\* doWork: while (!stopped)
WorkerWhile ==
    /\ wkPc = "while"
    /\ wkPc' = IF ~stopped THEN "sleep" ELSE "done"
    /\ afterStop' = IF stopped /\ wkPc' = "sleep"
                    THEN [afterStop EXCEPT !.entries = @ + 1] ELSE afterStop
    /\ UNCHANGED <<snPc, stopped, timeoutArg, timeout, elapsedTime, now, step,
                   gStage, clientUp, nChecks, stopAt, passedOver, lateCalls>>
    /\ SensorOnly

\* doWork: std::this_thread::sleep_for(gTimerPeriod); omniClientLiveProcess()
WorkerProcess ==
    /\ wkPc = "sleep"
    /\ wkPc' = "edit"
    /\ lateCalls' = LateCall
    /\ afterStop' = IF stopped THEN [afterStop EXCEPT !.processes = @ + 1]
                    ELSE afterStop
    /\ UNCHANGED <<snPc, stopped, timeoutArg, timeout, elapsedTime, now, step,
                   gStage, clientUp, nChecks, stopAt, passedOver>>
    /\ SensorOnly

\* doWork: displayColorAttr.Set(valueArray), under gLogMutex
WorkerEdit ==
    /\ wkPc = "edit"
    /\ wkPc' = "process"
    /\ lateCalls' = LateCall
    /\ afterStop' = IF stopped THEN [afterStop EXCEPT !.edits = @ + 1]
                    ELSE afterStop
    /\ UNCHANGED <<snPc, stopped, timeoutArg, timeout, elapsedTime, now, step,
                   gStage, clientUp, nChecks, stopAt, passedOver>>
    /\ SensorOnly

\* doWork: omniClientLiveProcess(); step++; if (step >= 360) step = 0;
\* variance = cos((double)step), a function of step
WorkerStep ==
    /\ wkPc = "process"
    /\ wkPc' = "while"
    /\ lateCalls' = LateCall
    /\ afterStop' = IF stopped THEN [afterStop EXCEPT !.processes = @ + 1]
                    ELSE afterStop
    /\ step' = IF step + 1 >= StepPeriod THEN 0 ELSE step + 1
    /\ UNCHANGED <<snPc, stopped, timeoutArg, timeout, elapsedTime, now, gStage,
                   clientUp, nChecks, stopAt, passedOver>>
    /\ SensorOnly

SensorMain ==
    \/ SensorStart \/ SensorWhile \/ SensorPause \/ SensorStop \/ SensorJoin
    \/ ResetGStage \/ ClientShutdown

DoWork == WorkerWhile \/ WorkerProcess \/ WorkerEdit \/ WorkerStep

NextSensor == SensorMain \/ DoWork

SpecSensor == InitSensor /\ [][NextSensor]_vars

\* The worker thread keeps being scheduled; main is not required to make
\* progress.
FairSensor == SpecSensor /\ WF_vars(DoWork)

\* main has read its arguments and started the worker.
SensorRunning == snPc \notin {"start", "exited"}

\* C12 as stated: with the timeout argument -1 main never sets stopped and the
\* worker never returns; with any other timeout T main leaves its loop only at
\* a check made after a 5-second pause at which the measured elapsed time is
\* >= T, and at the first such check.
C12_AsStated ==
    SensorRunning =>
       /\ (timeoutArg = <<"-", "1">> => ~stopped /\ ~stopAt.set /\ wkPc # "done")
       /\ (stopAt.set => stopAt.checks >= 1 /\ stopAt.elapsed >= Strtol(timeoutArg))
       /\ ~passedOver
       /\ (stopped => stopAt.set)

\* C12, amended: timeout is the value strtol reads from the argument (0 when
\* it has no digits); with timeout -1 main never sets stopped and the worker
\* never returns; with a timeout above 0 main leaves its loop only at a check
\* made after a 5-second pause at which the measured elapsed time is >= the
\* timeout, and at the first such check; with a timeout of 0 or below -1 main
\* leaves its loop at once, before any pause; stopped is set only after main
\* has left its loop.
C12_TimeoutLoop ==
    SensorRunning =>
       /\ timeout = Strtol(timeoutArg)
       /\ (timeout = -1 => ~stopped /\ ~stopAt.set /\ wkPc # "done")
       /\ (stopAt.set /\ timeout > 0 =>
              stopAt.checks >= 1 /\ stopAt.elapsed >= timeout)
       /\ (stopAt.set /\ timeout <= 0 => stopAt.checks = 0 /\ stopAt.elapsed = 0)
       /\ ~passedOver
       /\ (stopped => stopAt.set)

C12_Witness ==
    /\ stopped
    /\ timeoutArg = <<"6">>
    /\ stopAt.set
    /\ stopAt.checks = 2
    /\ stopAt.elapsed >= 10

\* C13: after main has set stopped the worker begins no further iteration (it
\* makes at most the one displayColor edit and the two omniClientLiveProcess
\* calls of the iteration it is in) and then returns; main releases the stage
\* and shuts the client library down only after the worker has returned, and
\* the worker makes no call with the stage released or the library shut down.
C13_StopThenJoin ==
    /\ [](/\ afterStop.entries = 0
          /\ afterStop.edits <= 1
          /\ afterStop.processes <= 2
          /\ lateCalls = 0
          /\ (snPc \in {"shutdown", "client_shutdown", "done"} => wkPc = "done")
          /\ (SensorRunning /\ (~gStage \/ ~clientUp) => wkPc = "done"))
    /\ (stopped ~> wkPc = "done")

C13_Witness ==
    /\ snPc = "done"
    /\ wkPc = "done"
    /\ ~gStage
    /\ ~clientUp
    /\ afterStop.edits = 1
    /\ afterStop.processes = 2

\* ========================================================================
\* helloWorld.cpp: liveEdit
\* ========================================================================

\* const int kFrames = 60
kFrames == 60

\* Characters inputChar can deliver ("other": any character without a case).
HwCommands == {"t", "s", "a", "m", "l", "q", "esc", "other"}

\* (as ProcessAfterFrame, without the omniClientLiveProcess call of a frame)
ProcessAfterFrame_None == <<"edit">>

\* case 'a': setElbowRelativeXTranslation(...); omniClientLiveProcess();
ProcessAfterFrame == <<"edit", "process">>

InitHello ==
    /\ LiveIdle /\ ChanIdle /\ TokIdle /\ AclIdle /\ UrlIdle /\ UsdIdle /\ ZoneIdle
    /\ SensorIdle /\ ArgsIdle
    /\ hwPc = "liveEdit"
    /\ hwCommand = "none"
    /\ hwAngle = 0
    /\ hwWait = FALSE
    /\ hwFrame = 0
    /\ joinRequestId = FALSE
    /\ animCounter = 0
    /\ hwSends = 0
    /\ hwIter = <<>>

\* liveEdit, up to the loop: omniClientLiveProcess(); omniClientJoinChannel
\* (which may hand out kInvalidRequestId); bool wait = true
HwEnter ==
    /\ hwPc = "liveEdit"
    /\ hwAngle' = 0
    /\ hwIter' = <<"process">>
    /\ \E joined \in BOOLEAN : joinRequestId' = joined
    /\ hwWait' = TRUE
    /\ hwPc' = "while"
    /\ UNCHANGED <<hwCommand, hwFrame, animCounter, hwSends>>
    /\ HelloOnly

\* while (wait)
HwWhile ==
    /\ hwPc = "while"
    /\ hwPc' = IF hwWait THEN "inputChar" ELSE "returned"
    /\ hwCommand' = "none"
    /\ UNCHANGED <<hwAngle, hwWait, hwFrame, joinRequestId, animCounter, hwSends,
                   hwIter>>
    /\ HelloOnly

\* char nextCommand = inputChar();   (blocks until the user types a character)
HwInputChar ==
    /\ hwPc = "inputChar"
    /\ \E c \in HwCommands : hwCommand' = c
    /\ hwIter' = <<"read">>
    /\ hwSends' = 0
    /\ hwPc' = "process"
    /\ UNCHANGED <<hwAngle, hwWait, hwFrame, joinRequestId, animCounter>>
    /\ HelloOnly

\* omniClientLiveProcess();   (before the switch)
HwLiveProcess ==
    /\ hwPc = "process"
    /\ hwIter' = Append(hwIter, "process")
    /\ hwPc' = "switch"
    /\ UNCHANGED <<hwCommand, hwAngle, hwWait, hwFrame, joinRequestId,
                   animCounter, hwSends>>
    /\ HelloOnly

\* case 't': move the mesh; omniClientLiveProcess()
HwTransform ==
    /\ hwPc = "switch" /\ hwCommand = "t"
    /\ hwAngle' = NextAngle(hwAngle)
    /\ hwIter' = hwIter \o <<"edit", "process">>
    /\ hwPc' = "while"
    /\ UNCHANGED <<hwCommand, hwWait, hwFrame, joinRequestId, animCounter,
                   hwSends>>
    /\ HelloOnly

\* case 's': createAndBindAnimForSkel(...); omniClientLiveProcess()
HwCreateAnim ==
    /\ hwPc = "switch" /\ hwCommand = "s"
    /\ animCounter < MaxAnims
    /\ animCounter' = animCounter + 1
    /\ hwIter' = hwIter \o <<"edit", "process">>
    /\ hwPc' = "while"
    /\ UNCHANGED <<hwCommand, hwAngle, hwWait, hwFrame, joinRequestId, hwSends>>
    /\ HelloOnly

\* case 'a': for (int i = 0; ...
HwStreamStart ==
    /\ hwPc = "switch" /\ hwCommand = "a"
    /\ hwFrame' = 0
    /\ hwPc' = "a_loop"
    /\ UNCHANGED <<hwCommand, hwAngle, hwWait, joinRequestId, animCounter,
                   hwSends, hwIter>>
    /\ HelloOnly

\* case 'a': ... i < kFrames; ++i) { setElbowRelativeXTranslation(...);
\* omniClientLiveProcess(); sleep_for(kTimerPeriod); }
HwStreamFrame ==
    /\ hwPc = "a_loop"
    /\ IF hwFrame < kFrames
       THEN /\ hwIter' = hwIter \o ProcessAfterFrame
            /\ hwFrame' = hwFrame + 1
            /\ hwPc' = "a_loop"
       ELSE /\ hwPc' = "while"
            /\ UNCHANGED <<hwIter, hwFrame>>
    /\ UNCHANGED <<hwCommand, hwAngle, hwWait, joinRequestId, animCounter,
                   hwSends>>
    /\ HelloOnly

\* case 'm': if (kInvalidRequestId != joinRequestId) omniClientSendMessage(...)
HwMessage ==
    /\ hwPc = "switch" /\ hwCommand = "m"
    /\ hwSends' = IF joinRequestId THEN hwSends + 1 ELSE hwSends
    /\ hwPc' = "while"
    /\ UNCHANGED <<hwCommand, hwAngle, hwWait, hwFrame, joinRequestId,
                   animCounter, hwIter>>
    /\ HelloOnly

\* case 'l': omniClientStop(joinRequestId); joinRequestId = kInvalidRequestId
HwLeave ==
    /\ hwPc = "switch" /\ hwCommand = "l"
    /\ joinRequestId' = FALSE
    /\ hwPc' = "while"
    /\ UNCHANGED <<hwCommand, hwAngle, hwWait, hwFrame, animCounter, hwSends,
                   hwIter>>
    /\ HelloOnly

\* case 27: case 'q': wait = false
HwQuit ==
    /\ hwPc = "switch" /\ hwCommand \in {"q", "esc"}
    /\ hwWait' = FALSE
    /\ hwPc' = "while"
    /\ UNCHANGED <<hwCommand, hwAngle, hwFrame, joinRequestId, animCounter,
                   hwSends, hwIter>>
    /\ HelloOnly

\* default: log the options
HwDefault ==
    /\ hwPc = "switch" /\ hwCommand = "other"
    /\ hwPc' = "while"
    /\ UNCHANGED <<hwCommand, hwAngle, hwWait, hwFrame, joinRequestId,
                   animCounter, hwSends, hwIter>>
    /\ HelloOnly

NextHello ==
    \/ HwEnter \/ HwWhile \/ HwInputChar \/ HwLiveProcess \/ HwTransform
    \/ HwCreateAnim \/ HwStreamStart \/ HwStreamFrame \/ HwMessage \/ HwLeave
    \/ HwQuit \/ HwDefault

SpecHello == InitHello /\ [][NextHello]_vars

\* One of the two programs with a liveEdit loop runs: liveSession (helloWorld
\* stays off) or helloWorld (liveSession is never started).
InitLiveEdits == InitLive \/ InitHello

LiveSessionRuns == hwPc = "off" /\ NextLive

NextLiveEdits == LiveSessionRuns \/ NextHello

SpecLiveEdits == InitLiveEdits /\ [][NextLiveEdits]_vars

\* ---- what C14 says of the events of one loop iteration ----

\* Every edit in events is directly followed by an omniClientLiveProcess call.
EditsProcessed(events) ==
    \A k \in 1..Len(events) :
       events[k] = "edit" => k < Len(events) /\ events[k + 1] = "process"

\* A character was read and omniClientLiveProcess was called right after it.
ProcessedAfterRead(events) ==
    Len(events) >= 2 /\ events[1] = "read" /\ events[2] = "process"

\* liveSession: main is past the read of a character and the test that
\* follows it; helloWorld: liveEdit is past the call that follows the read.
LiveCharTaken == mainPc # "check" /\ iter # <<>> /\ iter[1] = "read"
HwCharTaken == hwPc # "process" /\ hwIter # <<>> /\ hwIter[1] = "read"

\* liveSession: main is executing the command of the character read.
LiveInCommand == mainPc \in {"switch", "r_name", "m_loop", "m_read", "m_branch", "m_return"}

\* C14 as stated: in both loops omniClientLiveProcess is called after each
\* character read, before its command executes, and after every edit of the
\* stage before the next character is read.
C14_AsStated ==
    /\ (LiveCharTaken => ProcessedAfterRead(iter))
    /\ (HwCharTaken => ProcessedAfterRead(hwIter))
    /\ EditsProcessed(iter)
    /\ EditsProcessed(hwIter)

\* C14, amended: in helloWorld omniClientLiveProcess is called after each
\* character read and before its command executes; in liveSession it is
\* called after each character read and before its command executes unless
\* gStageMerged is seen set, when liveEdit returns without the call and
\* without executing the command; in both loops every edit of the stage is
\* followed by a call before the next character is read.
C14_ProcessOrder ==
    /\ (LiveCharTaken =>
           \/ ProcessedAfterRead(iter)
           \/ iter = <<"read">> /\ mainPc \in AfterLiveEdit /\ gStageMerged)
    /\ (LiveInCommand => ProcessedAfterRead(iter))
    /\ (HwCharTaken => ProcessedAfterRead(hwIter))
    /\ (hwPc \in {"switch", "a_loop"} => ProcessedAfterRead(hwIter))
    /\ EditsProcessed(iter)
    /\ EditsProcessed(hwIter)

C14_Witness ==
    /\ hwPc = "while"
    /\ hwCommand = "a"
    /\ hwFrame = kFrames
    /\ Len(hwIter) = 2 + 2 * kFrames

\* ========================================================================
\* liveSession.cpp: main, from its arguments to the live session
\* ========================================================================

\* URLs of the Omniverse servers, and the files that exist (on a server or on
\* the local disk).
OmniUrls == {"omniverse://a", "omniverse://missing"}
ExistingFiles == {"omniverse://a", "file.usd"}

\* Words of the command line.
ArgWords ==
    {"-h", "--help", "-v", "--verbose", "-e", "--existing", "-x"}
    \cup OmniUrls \cup ExistingFiles

\* Command lines of up to MaxArgc words.
ArgLines == UNION {[1..n -> ArgWords] : n \in 0..MaxArgc}

\* (as IsOmniUri, taking every word for an Omniverse URL)
IsOmniUri_Any(uri) == TRUE

\* omni::connect::core::isOmniUri
IsOmniUri(uri) == uri \in OmniUrls

\* omni::connect::core::doesUriExist
DoesUriExist(uri) == uri \in ExistingFiles

IsHelp(a) == a = "-h" \/ a = "--help"
IsVerbose(a) == a = "-v" \/ a = "--verbose"
IsExisting(a) == a = "-e" \/ a = "--existing"

InitArgs ==
    /\ LiveIdle /\ ChanIdle /\ TokIdle /\ AclIdle /\ UrlIdle /\ UsdIdle /\ ZoneIdle
    /\ SensorIdle /\ HelloIdle
    /\ argv \in ArgLines
    /\ argX = 1
    /\ argPc = "start"
    /\ verbose = FALSE
    /\ doLiveEdit = FALSE
    /\ existingStageUri = ""
    /\ argRet = "none"
    /\ omniStarted = FALSE
    /\ stageOpenCalls = 0
    /\ sessionJoined = FALSE

\* main ends with code ret.
ArgsReturn(ret) ==
    /\ argRet' = ret
    /\ argPc' = "ended"

\* main: the loop looking for -v / --verbose; if (!startOmniverse(verbose))
\* exit(1)
StartOmniverse ==
    /\ argPc = "start"
    /\ verbose' = \E i \in 1..Len(argv) : IsVerbose(argv[i])
    /\ \E started \in BOOLEAN :
          /\ omniStarted' = started
          /\ IF started
             THEN argPc' = "for" /\ UNCHANGED argRet
             ELSE ArgsReturn("exit(1)")
    /\ UNCHANGED <<argv, argX, doLiveEdit, existingStageUri, stageOpenCalls,
                   sessionJoined>>
    /\ ArgsOnly

\* main: one turn of for (int x = 1; x < argc; x++) on argv[x]
ProcessArgument ==
    /\ argPc = "for"
    /\ IF argX > Len(argv)
       THEN /\ argPc' = "check"
            /\ UNCHANGED <<argX, doLiveEdit, existingStageUri, argRet>>
       ELSE IF IsHelp(argv[argX])
       THEN /\ ArgsReturn("0")
            /\ UNCHANGED <<argX, doLiveEdit, existingStageUri>>
       ELSE IF IsVerbose(argv[argX])
       THEN /\ argX' = argX + 1
            /\ UNCHANGED <<argPc, doLiveEdit, existingStageUri, argRet>>
       ELSE IF IsExisting(argv[argX])
       THEN /\ doLiveEdit' = TRUE
            /\ IF argX = Len(argv)
               THEN /\ ArgsReturn("-1")
                    /\ UNCHANGED <<argX, existingStageUri>>
               ELSE /\ existingStageUri' = argv[argX + 1]
                    /\ IF ~IsOmniUri(argv[argX + 1]) \/ ~DoesUriExist(argv[argX + 1])
                       THEN ArgsReturn("-1") /\ argX' = argX + 1
                       ELSE argX' = argX + 2 /\ UNCHANGED <<argPc, argRet>>
       ELSE /\ argX' = argX + 1
            /\ UNCHANGED <<argPc, doLiveEdit, existingStageUri, argRet>>
    /\ UNCHANGED <<argv, verbose, omniStarted, stageOpenCalls, sessionJoined>>
    /\ ArgsOnly

\* main: if (existingStageUri.length() == 0) return -1
CheckStageUri ==
    /\ argPc = "check"
    /\ IF existingStageUri = ""
       THEN ArgsReturn("-1")
       ELSE argPc' = "open" /\ UNCHANGED argRet
    /\ UNCHANGED <<argv, argX, verbose, doLiveEdit, existingStageUri, omniStarted,
                   stageOpenCalls, sessionJoined>>
    /\ ArgsOnly

\* main: UsdStageRefPtr stage = UsdStage::Open(existingStageUri);
\* if (!stage) exit(1);  boxMesh = findGeomMesh(stage)
OpenExistingStage ==
    /\ argPc = "open"
    /\ stageOpenCalls' = stageOpenCalls + 1
    /\ \E opened \in BOOLEAN :
          IF opened
          THEN argPc' = "session" /\ UNCHANGED argRet
          ELSE ArgsReturn("exit(1)")
    /\ UNCHANGED <<argv, argX, verbose, doLiveEdit, existingStageUri, omniStarted,
                   sessionJoined>>
    /\ ArgsOnly

\* main: liveSession = LiveSession::create(stage); if (!liveSession) exit(1);
\* findOrCreateSession(liveSession.get())
CreateSession ==
    /\ argPc = "session"
    /\ \E created \in BOOLEAN :
          IF created
          THEN argPc' = "live" /\ sessionJoined' = TRUE /\ UNCHANGED argRet
          ELSE ArgsReturn("exit(1)") /\ UNCHANGED sessionJoined
    /\ UNCHANGED <<argv, argX, verbose, doLiveEdit, existingStageUri, omniStarted,
                   stageOpenCalls>>
    /\ ArgsOnly

NextArgs ==
    \/ StartOmniverse \/ ProcessArgument \/ CheckStageUri \/ OpenExistingStage
    \/ CreateSession

SpecArgs == InitArgs /\ [][NextArgs]_vars

\* ---- what C15 says of a command line ----

\* -e / --existing occurs with a following word that is an Omniverse URL and
\* exists.
ValidExisting(args) ==
    \E i \in 1..(Len(args) - 1) :
       /\ args[i] \in {"-e", "--existing"}
       /\ args[i + 1] = "omniverse://a"

\* -e is the last word, or is followed by a word that is not an Omniverse
\* URL or by a URL that does not exist, or does not occur at all.
FaultyExisting(args) ==
    \/ Len(args) > 0 /\ args[Len(args)] \in {"-e", "--existing"}
    \/ \E i \in 1..(Len(args) - 1) :
          /\ args[i] \in {"-e", "--existing"}
          /\ args[i + 1] # "omniverse://a"
    \/ \A i \in 1..Len(args) : args[i] \notin {"-e", "--existing"}

HasHelp(args) == \E i \in 1..Len(args) : args[i] \in {"-h", "--help"}

\* main has called UsdStage::Open or is about to.
ReachesOpen == stageOpenCalls > 0 \/ argPc \in {"open", "session", "live"} \/ sessionJoined

\* C15 as stated: main reaches UsdStage::Open and the session join only with
\* a valid -e; with -e last, with a word after -e that is no Omniverse URL or
\* does not exist, or without -e, main (once startOmniverse has succeeded)
\* returns -1 and opens no stage.
C15_AsStated ==
    /\ (ReachesOpen => ValidExisting(argv))
    /\ (FaultyExisting(argv) =>
           /\ ~ReachesOpen
           /\ (argPc = "ended" /\ omniStarted => argRet = "-1"))

\* C15, amended: main reaches UsdStage::Open and the session join only with
\* a valid -e and after startOmniverse has succeeded; with -e last, with a
\* word after -e that is no Omniverse URL or does not exist, or without -e,
\* main opens no stage and ends with return -1, or with exit(1) when
\* startOmniverse fails, or with return 0 when the command line holds -h or
\* --help; main returns -1 in no other case.
C15_OpenOnlyExisting ==
    /\ (ReachesOpen =>
           /\ ValidExisting(argv)
           /\ omniStarted
           /\ doLiveEdit
           /\ existingStageUri = "omniverse://a")
    /\ (sessionJoined => stageOpenCalls = 1)
    /\ (FaultyExisting(argv) =>
           /\ ~ReachesOpen
           /\ (argPc = "ended" =>
                  \/ argRet = "-1"
                  \/ argRet = "exit(1)" /\ ~omniStarted
                  \/ argRet = "0" /\ HasHelp(argv)))
    /\ (argRet = "-1" => FaultyExisting(argv) /\ omniStarted)

C15_Witness ==
    /\ argv = <<"-v", "--existing", "omniverse://a">>
    /\ argPc = "live"
    /\ sessionJoined
    /\ stageOpenCalls = 1
    /\ verbose

\* ========================================================================
\* omniSimpleSensor.cpp: createZoneGeometry, and the lookup of the boxes in
\* omniSensorThread.cpp
\* ========================================================================

\* xOffset = (zoneNumber % zoneSize) * 150, likewise yOffset and zOffset
BoxSpacing == 150

DigitChars == <<"0", "1", "2", "3", "4", "5", "6", "7", "8", "9">>

\* std::to_string(int) of a number that is not negative
RECURSIVE to_string(_)
to_string(n) ==
    IF n < 10 THEN <<DigitChars[n + 1]>>
    ELSE Append(to_string(n \div 10), DigitChars[(n % 10) + 1])

\* "box_" + std::to_string(zone) under /World (getValidPrimName leaves a name
\* of letters, digits and '_' as it is)
BoxPath(zone) == <<"World", <<"b", "o", "x", "_">> \o to_string(zone)>>

\* (int)floor(std::cbrt((double)totalZones)) for totalZones >= 0
FloorCbrt(n) == CHOOSE r \in 0..n : r * r * r <= n /\ n < (r + 1) * (r + 1) * (r + 1)

\* int zoneSize = (int)floor(std::cbrt((double)totalZones));
\* if (zoneSize < 1) zoneSize = 1;
ZoneSize(totalZones) ==
    IF FloorCbrt(totalZones) < 1 THEN 1 ELSE FloorCbrt(totalZones)

\* float xOffset = (zoneNumber % zoneSize) * 150
XOffset(zoneNumber, zoneSize) == (zoneNumber % zoneSize) * BoxSpacing

\* int yZone = zoneNumber % (zoneSize * zoneSize);
\* float yOffset = int(yZone / zoneSize) * 150
YOffset(zoneNumber, zoneSize) ==
    ((zoneNumber % (zoneSize * zoneSize)) \div zoneSize) * BoxSpacing

\* (as ZOffset, with the layer number taken modulo zoneSize)
ZOffset_Wrapped(zoneNumber, zoneSize) ==
    ((zoneNumber \div (zoneSize * zoneSize)) % zoneSize) * BoxSpacing

\* float zOffset = int(floor(zoneNumber / (zoneSize * zoneSize))) * 150
ZOffset(zoneNumber, zoneSize) ==
    (zoneNumber \div (zoneSize * zoneSize)) * BoxSpacing

InitZones ==
    /\ LiveIdle /\ ChanIdle /\ TokIdle /\ AclIdle /\ UrlIdle /\ UsdIdle
    /\ SensorIdle /\ HelloIdle /\ ArgsIdle
    /\ numberOfThreads \in 0..MaxZones
    /\ zoneX = 0
    /\ boxes = <<>>
    /\ attachLast = NoCommand

\* omniSimpleSensor main: one turn of
\* for (int x = 0; x < numberOfThreads; x++) createZoneGeometry(x, numberOfThreads, baseUrl)
CreateZoneGeometry ==
    /\ zoneX < numberOfThreads
    /\ LET zoneSize == ZoneSize(numberOfThreads) IN
       boxes' = Append(boxes, [path |-> BoxPath(zoneX),
                               offset |-> <<XOffset(zoneX, zoneSize),
                                            YOffset(zoneX, zoneSize),
                                            ZOffset(zoneX, zoneSize)>>])
    /\ zoneX' = zoneX + 1
    /\ attachLast' = NoCommand
    /\ UNCHANGED numberOfThreads
    /\ ZoneOnly

\* omniSensorThread: UsdGeomMesh attachToZoneGeometry(int zone), run on the
\* stage omniSimpleSensor has finished
AttachToZoneGeometry ==
    /\ zoneX >= numberOfThreads
    /\ \E zone \in 0..MaxZones :
          LET path == BoxPath(zone)
              found == {k \in 1..Len(boxes) : boxes[k].path = path}
          IN  attachLast' = [cmd |-> "attach", zone |-> zone, path |-> path,
                             found |-> found]
    /\ UNCHANGED <<numberOfThreads, zoneX, boxes>>
    /\ ZoneOnly

NextZones == CreateZoneGeometry \/ AttachToZoneGeometry

SpecZones == InitZones /\ [][NextZones]_vars

\* ---- what C16 says of the boxes ----

\* The number a sequence of decimal digits denotes.
RECURSIVE DecimalValue(_)
DecimalValue(s) ==
    IF s = <<>> THEN 0
    ELSE 10 * DecimalValue(SubSeq(s, 1, Len(s) - 1))
         + (CHOOSE d \in 0..9 : DigitChars[d + 1] = s[Len(s)])

MultipleOfSpacing(n) == n % 150 = 0

\* C16: the boxes of two different zone numbers differ in at least one
\* coordinate of their offsets, every offset and so every difference being a
\* multiple of 150; the box of zone number k has the path /World/box_<k>, so
\* the paths are distinct too, and the lookup of zone k by omniSensorThread
\* finds exactly that box.
C16_DistinctBoxes ==
    /\ \A a, b \in 1..Len(boxes) :
          a < b =>
             /\ boxes[a].offset # boxes[b].offset
             /\ boxes[a].path # boxes[b].path
             /\ \E c \in 1..3 :
                   /\ boxes[a].offset[c] # boxes[b].offset[c]
                   /\ MultipleOfSpacing(boxes[a].offset[c] - boxes[b].offset[c])
    /\ \A k \in 1..Len(boxes) :
          /\ boxes[k].path[1] = "World"
          /\ SubSeq(boxes[k].path[2], 1, 4) = <<"b", "o", "x", "_">>
          /\ DecimalValue(SubSeq(boxes[k].path[2], 5, Len(boxes[k].path[2]))) = k - 1
          /\ \A c \in 1..3 :
                boxes[k].offset[c] >= 0 /\ MultipleOfSpacing(boxes[k].offset[c])
    /\ Len(boxes) = zoneX
    /\ zoneX <= numberOfThreads
    /\ (attachLast.cmd = "attach" =>
           attachLast.found = IF attachLast.zone < Len(boxes)
                              THEN {attachLast.zone + 1} ELSE {})

C16_Witness ==
    /\ numberOfThreads = 27
    /\ Len(boxes) = 27
    /\ boxes[27].offset = <<300, 300, 300>>
    /\ boxes[14].offset = <<150, 150, 150>>
    /\ attachLast.cmd = "attach"
    /\ attachLast.zone = 26
    /\ attachLast.found = {27}

====
